---- MODULE Spec2Model ----
(***************************************************************************)
(* Authentication and session core of the Praxis API (apps/api/src):       *)
(* password signup/login, OAuth callbacks, TOTP second factor with backup  *)
(* codes, WebAuthn passkeys and device-bound session records.              *)
(*                                                                         *)
(* The Postgres tables are sets of rows, the tower-sessions store is a     *)
(* function from session id to the session's key/value data, and every     *)
(* axum handler is one action whose parameters are the request's cookie    *)
(* and payload.                                                            *)
(***************************************************************************)
EXTENDS Naturals, Integers, FiniteSets, Sequences, TLC

(* ----------------------------- bounds --------------------------------- *)
MaxUsers == 2
MaxSessions == 2
MaxDevices == 3
MaxSecrets == 2
MaxBatches == 2
MaxTime == 2
MaxChal == 3
MaxCounter == 2
MaxRequests == 2

(* ------------------------- program constants -------------------------- *)
BackupBatchSize == 10
SessionExpiryHours == 24
TotpSkew == 1

None == 0

RESERVED_USERNAMES == {"login", "signup", "dashboard", "settings", "api", "profile",
                       "logout", "manifest.json", "robots.txt", "sitemap.xml", "admin",
                       "user", "static", "public", "assets", "help", "about", "contact",
                       "terms", "privacy"}

(* ------------------------------ inputs -------------------------------- *)
\* An email is its local part and its domain (split('@')).
Email(l, d) == [local |-> l, domain |-> d]
AnnEmail == Email("Ann", "x.com")
BobEmail == Email("bob", "x.com")
TestEmail == Email("test_user", "example.com")
SignupEmails == {AnnEmail, BobEmail}
Emails == SignupEmails \cup {TestEmail}
Passwords == {"secret1", "wrong"}
Usernames == {"Ann", "bob"}
GithubLogins == {"Ann"}

\* str::to_lowercase on the names the model uses
to_lowercase(s) == CASE s = "Ann" -> "ann"
                     [] s = "Admin" -> "admin"
                     [] OTHER -> s

(* ---------------------------- credential vault ------------------------ *)
\* Argon2 PHC string of a password; the salt is not modelled.
hash_password(p) == [alg |-> "argon2id", pw |-> p]
DummyHash == [alg |-> "dummy_hash_for_test_user", pw |-> "dummy_hash_for_test_user"]
\* PasswordHash::new succeeds only on a PHC string
PasswordHash_new(h) == h.alg = "argon2id"
verify_password_Any(p, h) == TRUE
verify_password(p, h) == h = hash_password(p)
\* String::is_empty on a stored hash
is_empty(h) == h.alg = ""

VARIABLES
    users,                \* table users: rows [id, username, role]
    local_auths,          \* table local_auths: rows [user_id, email, password_hash]
    totp_secrets,         \* table totp_secrets: rows [user_id, secret, enabled]
    backup_codes,         \* table backup_codes: rows [id, user_id, code_hash, used]
    passkey_credentials,  \* table passkey_credentials: rows [id, user_id, credential_id, counter, last_used_at]
    active_sessions,      \* table active_sessions: rows [id, user_id, session_id, expires_in]
    store,                \* tower_sessions.session: session id -> session data
    next_user,            \* next users.id
    next_sid,             \* next session id of the store
    next_secret,          \* next TOTP secret
    next_batch,           \* next backup-code batch
    next_chal,            \* next WebAuthn challenge
    now,                  \* current TOTP time step
    inflight,             \* requests between two of their statements
    last                  \* the last request and its response

db == <<users, local_auths, totp_secrets, backup_codes, passkey_credentials, active_sessions>>
counters == <<next_user, next_sid, next_secret, next_batch, next_chal>>
vars == <<users, local_auths, totp_secrets, backup_codes, passkey_credentials,
          active_sessions, store, next_user, next_sid, next_secret, next_batch,
          next_chal, now, inflight, last>>

(* ------------------------------ session ------------------------------- *)
NoState == [chal |-> 0, creds |-> {}]
NoSessionData == [user_id |-> None, pending_2fa_user_id |-> None,
                  passkey_reg_state |-> NoState, passkey_auth_state |-> NoState]

\* A request's cookie: a live session id, or 0 (no cookie, or a cookie whose
\* record is gone: loading it yields a fresh session without an id).
Cookies == DOMAIN store \cup {0}

\* Session::get / load
Load(c) == IF c \in DOMAIN store THEN store[c] ELSE NoSessionData

\* Session::id(): Some only for a session that already has a record
session_id(c) == IF c \in DOMAIN store THEN c ELSE 0

\* The session layer saves a modified session when the response goes out; a
\* session without a record gets its id then.
CanSaveWithin(c, d, limit) ==
    c \in DOMAIN store \/ d = NoSessionData \/ next_sid <= limit
CanSave(c, d) == CanSaveWithin(c, d, MaxSessions)
Save(c, d) ==
    IF c \in DOMAIN store
    THEN /\ store' = [store EXCEPT ![c] = d]
         /\ next_sid' = next_sid
    ELSE IF d = NoSessionData
    THEN /\ store' = store
         /\ next_sid' = next_sid
    ELSE /\ store' = store @@ (next_sid :> d)
         /\ next_sid' = next_sid + 1

\* The session id the client holds after the response
SavedSid(c, d) == IF c \in DOMAIN store THEN c
                  ELSE IF d = NoSessionData THEN 0 ELSE next_sid

NoUpsert == [user |-> None, sid |-> 0]

\* The last request (handler, payload, cookie) and what it produced: the
\* response (status, msg, data), the session id after it, the user it resolved,
\* the create_session call it made and the line it logged.
Request(op, req, c) ==
    [op |-> op, req |-> req, cookie |-> c, sid |-> session_id(c), status |-> 0,
     msg |-> "", user |-> None, upsert |-> NoUpsert, data |-> {}, log |-> ""]

Fail(op, req, c, status, msg) ==
    last' = [Request(op, req, c) EXCEPT !.status = status, !.msg = msg]

Ok(op, req, c, status, msg, user) ==
    last' = [Request(op, req, c) EXCEPT !.status = status, !.msg = msg, !.user = user]

NoReq == [none |-> TRUE]

(* --------------------------- session tracker -------------------------- *)
\* The row's uuid; a session id has at most one row (ON CONFLICT (session_id)).
AsrId(sid) == 100 + sid

create_session_Insert(rows, user_id, sid, expires) ==
    rows \cup {[id |-> AsrId(sid) + 50 * user_id, user_id |-> user_id, session_id |-> sid,
              expires_in |-> expires]}

\* session::create_session: INSERT ... ON CONFLICT (session_id) DO UPDATE SET
\* last_active_at, user_agent, ip_address, expires_at (user_id is not updated)
create_session(rows, user_id, sid, expires) ==
    IF \E r \in rows : r.session_id = sid
    THEN {IF r.session_id = sid THEN [r EXCEPT !.expires_in = expires] ELSE r : r \in rows}
    ELSE rows \cup {[id |-> AsrId(sid), user_id |-> user_id, session_id |-> sid,
                     expires_in |-> expires]}

TrackSession_Never(rows, user_id, sid) == rows

\* "if let Some(session_id) = session.id() { create_session(.., now + 24h) }"
TrackSession(rows, user_id, sid) ==
    IF sid # 0 THEN create_session(rows, user_id, sid, SessionExpiryHours) ELSE rows

\* ... and the call it makes
Upsert(user_id, sid) == IF sid # 0 THEN [user |-> user_id, sid |-> sid] ELSE NoUpsert

(* ------------------------------- TOTP --------------------------------- *)
TotpCode(secret, step) == [kind |-> "totp", a |-> secret, b |-> step]
BackupCode(v) == [kind |-> "backup", a |-> v, b |-> 0]
BadCode == [kind |-> "bad", a |-> 0, b |-> 0]

check_current_Any(secret, code) == TRUE

\* TOTP::check_current with skew 1: the code of the previous, current or next step
check_current(secret, code) ==
    /\ code.kind = "totp"
    /\ code.a = secret
    /\ code.b + TotpSkew >= now
    /\ code.b <= now + TotpSkew

has_2fa_enabled_Never(user_id) == FALSE

\* totp::has_2fa_enabled
has_2fa_enabled(user_id) ==
    \E t \in totp_secrets : t.user_id = user_id /\ t.enabled

(* ------------------------------- Init --------------------------------- *)
Init ==
    /\ users = {}
    /\ local_auths = {}
    /\ totp_secrets = {}
    /\ backup_codes = {}
    /\ passkey_credentials = {}
    /\ active_sessions = {}
    /\ store = <<>>
    /\ next_user = 1
    /\ next_sid = 1
    /\ next_secret = 1
    /\ next_batch = 1
    /\ next_chal = 1
    /\ now = 0
    /\ inflight = <<>>
    /\ last = Request("init", NoReq, 0)

(* --------------------------- auth::signup ----------------------------- *)
\* INSERT INTO users. The migrations are not among the sources, so whether
\* users.username is UNIQUE is not known: the INSERT of a name that is already
\* stored either fails (UNIQUE) or stores a second row with that name.
InsertUserOutcomes(name) ==
    IF \E u \in users : u.username = name THEN {"ok", "unique_violation"} ELSE {"ok"}

\* How the transaction of signup can end: each of its two inserts and its
\* commit can fail in the database
SignupTxOutcomes ==
    {"ok", "users insert failed", "local_auths insert failed", "commit failed"}

\* The rows the statements of the transaction have written when it ends with
\* outcome o: a failed statement and the ones after it wrote nothing
Staged(rows, row, o, failures) == IF o \in failures THEN rows ELSE rows \cup {row}

Committed_Autocommit(before, staged, o) == staged

\* pool.begin() .. tx.commit(): the staged rows become the table only when the
\* transaction commits; dropping the transaction on an error rolls it back
Committed(before, staged, o) == IF o = "ok" THEN staged ELSE before

signup(c, email, password, username) ==
    LET safe_username == to_lowercase(username)
        d == [Load(c) EXCEPT !.user_id = next_user]
        req == [email |-> email, password |-> password, username |-> username]
        user == [id |-> next_user, username |-> safe_username, role |-> "user"]
        local_auth == [user_id |-> next_user, email |-> email,
                       password_hash |-> hash_password(password)]
    IN
    /\ UNCHANGED <<totp_secrets, backup_codes, passkey_credentials, next_secret,
                   next_batch, next_chal, now, inflight>>
    /\ IF \E la \in local_auths : la.email = email
       THEN /\ Fail("signup", req, c, 409, "Email already exists")
            /\ UNCHANGED <<users, local_auths, active_sessions, store, next_user, next_sid>>
       ELSE IF safe_username \in RESERVED_USERNAMES
       THEN /\ Fail("signup", req, c, 400, "Username is reserved")
            /\ UNCHANGED <<users, local_auths, active_sessions, store, next_user, next_sid>>
       ELSE \E o \in SignupTxOutcomes :
            /\ next_user <= MaxUsers
            /\ users' = Committed(users,
                                  Staged(users, user, o, {"users insert failed"}), o)
            /\ local_auths' =
                   Committed(local_auths,
                             Staged(local_auths, local_auth, o,
                                    {"users insert failed", "local_auths insert failed"}),
                             o)
            /\ IF o # "ok"
               THEN /\ Fail("signup", req, c, 500, o)
                    /\ UNCHANGED <<active_sessions, store, next_user, next_sid>>
               ELSE /\ CanSave(c, d)
                    /\ next_user' = next_user + 1
                    /\ Save(c, d)
                    /\ active_sessions' =
                           TrackSession(active_sessions, next_user, session_id(c))
                    /\ last' = [Request("signup", req, c) EXCEPT
                                   !.status = 201,
                                   !.msg = "User created successfully. Please verify your email.",
                                   !.user = next_user, !.sid = SavedSid(c, d),
                                   !.upsert = Upsert(next_user, session_id(c))]

(* ---------------------------- auth::login ----------------------------- *)
\* The response to an unknown email and to a wrong password
InvalidCredentials == [status |-> 401, msg |-> "Invalid email or password"]

CorruptedHashResponse_Internal == [status |-> 500, msg |-> "Corrupted password hash"]

\* The response when PasswordHash::new rejects the stored hash
CorruptedHashResponse == [status |-> 401, msg |-> "Invalid email or password"]

\* auth::login, for a session store that issues at most `limit` session ids
login_within(c, email, password, limit) ==
    LET req == [email |-> email, password |-> password] IN
    /\ UNCHANGED <<users, local_auths, totp_secrets, backup_codes, passkey_credentials,
                   next_user, next_secret, next_batch, next_chal, now, inflight>>
    /\ IF ~ \E la \in local_auths : la.email = email
       THEN /\ Fail("login", req, c, InvalidCredentials.status, InvalidCredentials.msg)
            /\ UNCHANGED <<active_sessions, store, next_sid>>
       ELSE LET user == CHOOSE la \in local_auths : la.email = email IN
            IF ~ PasswordHash_new(user.password_hash)
            THEN /\ last' = [Request("login", req, c) EXCEPT
                                !.status = CorruptedHashResponse.status,
                                !.msg = CorruptedHashResponse.msg,
                                !.log = "Corrupted password hash"]
                 /\ UNCHANGED <<active_sessions, store, next_sid>>
            ELSE IF ~ verify_password(password, user.password_hash)
            THEN /\ last' = [Request("login", req, c) EXCEPT
                                !.status = InvalidCredentials.status,
                                !.msg = InvalidCredentials.msg,
                                !.log = "Failed login attempt"]
                 /\ UNCHANGED <<active_sessions, store, next_sid>>
            ELSE IF has_2fa_enabled(user.user_id)
            THEN LET d == [Load(c) EXCEPT !.pending_2fa_user_id = user.user_id] IN
                 /\ CanSaveWithin(c, d, limit)
                 /\ Save(c, d)
                 /\ UNCHANGED active_sessions
                 /\ last' = [Request("login", req, c) EXCEPT
                                !.status = 200, !.msg = "requires_2fa",
                                !.user = user.user_id, !.sid = SavedSid(c, d),
                                !.log = "2FA required"]
            ELSE LET d == [Load(c) EXCEPT !.user_id = user.user_id] IN
                 /\ CanSaveWithin(c, d, limit)
                 /\ Save(c, d)
                 /\ active_sessions' =
                        TrackSession(active_sessions, user.user_id, session_id(c))
                 /\ last' = [Request("login", req, c) EXCEPT
                                !.status = 200, !.msg = "Login successful",
                                !.user = user.user_id, !.sid = SavedSid(c, d),
                                !.upsert = Upsert(user.user_id, session_id(c)),
                                !.log = "Login successful"]

\* auth::login
login(c, email, password) == login_within(c, email, password, MaxSessions)

(* ---------------- auth::google_callback / github_callback ------------- *)
\* The part the two callbacks share, from "find user by email" on: an email
\* with a local_auths row resolves to that row's user; any other email makes
\* a new users row (and no local_auths row); then the session is finalized.
find_user_by_email_Nobody(email) == {}

\* "find user by email to see if they already exist": SELECT user_id,
\* password_hash FROM local_auths WHERE email = $1
find_user_by_email(email) == {la \in local_auths : la.email = email}

oauth_callback(op, c, email, username) ==
    LET req == [email |-> email, username |-> username] IN
    /\ UNCHANGED <<local_auths, totp_secrets, backup_codes, passkey_credentials,
                   next_secret, next_batch, next_chal, now, inflight>>
    /\ IF find_user_by_email(email) # {}
       THEN LET user_id == (CHOOSE la \in find_user_by_email(email) : TRUE).user_id
                d == [Load(c) EXCEPT !.user_id = user_id]
            IN
            /\ CanSave(c, d)
            /\ Save(c, d)
            /\ active_sessions' = TrackSession(active_sessions, user_id, session_id(c))
            /\ UNCHANGED <<users, next_user>>
            /\ last' = [Request(op, req, c) EXCEPT
                           !.status = 303, !.msg = "/dashboard", !.user = user_id,
                           !.sid = SavedSid(c, d),
                           !.upsert = Upsert(user_id, session_id(c))]
       ELSE \E o \in InsertUserOutcomes(username) :
            IF o = "unique_violation"
            THEN /\ Fail(op, req, c, 500, "db error")
                 /\ UNCHANGED <<users, active_sessions, store, next_user, next_sid>>
            ELSE LET d == [Load(c) EXCEPT !.user_id = next_user] IN
                 /\ next_user <= MaxUsers
                 /\ CanSave(c, d)
                 /\ users' = users \cup {[id |-> next_user, username |-> username,
                                          role |-> "user"]}
                 /\ next_user' = next_user + 1
                 /\ Save(c, d)
                 /\ active_sessions' =
                        TrackSession(active_sessions, next_user, session_id(c))
                 /\ last' = [Request(op, req, c) EXCEPT
                                !.status = 303, !.msg = "/dashboard", !.user = next_user,
                                !.sid = SavedSid(c, d),
                                !.upsert = Upsert(next_user, session_id(c)),
                                !.log = "new user"]

\* username: the lower-cased local part of the Google account's email
google_callback(c, email) ==
    oauth_callback("google_callback", c, email, to_lowercase(email.local))

\* username: the lower-cased GitHub login
github_callback(c, github_login, email) ==
    oauth_callback("github_callback", c, email, to_lowercase(github_login))

DeleteStoreEntries_Kept(ids) == store

(* ---------------------------- auth::logout ---------------------------- *)
\* DELETE FROM tower_sessions.session WHERE id IN ids
DeleteStoreEntries(ids) == [k \in DOMAIN store \ ids |-> store[k]]

\* Session::delete removes the record from the store
logout(c) ==
    /\ c \in DOMAIN store
    /\ store' = DeleteStoreEntries({c})
    /\ last' = [Request("logout", NoReq, c) EXCEPT
                   !.status = 200, !.msg = "Logged out successfully", !.sid = 0]
    /\ UNCHANGED <<db, counters, now, inflight>>

(* --------------------------- totp handlers ---------------------------- *)
TotpFrame == UNCHANGED <<users, local_auths, passkey_credentials, next_user, next_chal,
                         now, inflight>>

upsert_totp_secret_Insert(rows, user_id, secret) ==
    rows \cup {[user_id |-> user_id, secret |-> secret, enabled |-> FALSE]}

\* totp::setup_totp, its statement: INSERT INTO totp_secrets ... ON CONFLICT
\* (user_id) DO UPDATE SET secret = $2, enabled = false
upsert_totp_secret(rows, user_id, secret) ==
    {t \in rows : t.user_id # user_id} \cup
        {[user_id |-> user_id, secret |-> secret, enabled |-> FALSE]}

\* totp::setup_totp
setup_totp(c) ==
    LET user_id == Load(c).user_id IN
    /\ TotpFrame
    /\ UNCHANGED <<backup_codes, active_sessions, store, next_sid, next_batch>>
    /\ IF user_id = None
       THEN /\ Fail("setup_totp", NoReq, c, 401, "Not logged in")
            /\ UNCHANGED <<totp_secrets, next_secret>>
       ELSE /\ next_secret <= MaxSecrets
            /\ totp_secrets' = upsert_totp_secret(totp_secrets, user_id, next_secret)
            /\ next_secret' = next_secret + 1
            /\ last' = [Request("setup_totp", NoReq, c) EXCEPT
                           !.status = 200, !.user = user_id, !.data = {next_secret}]

\* The 10 codes of a batch
BatchCodes(batch) ==
    {BackupCode(v) : v \in ((batch - 1) * BackupBatchSize + 1)..(batch * BackupBatchSize)}

BackupRowId(code) == 1000 + code.a

generate_backup_codes_Reuse(rows, user_id, batch) ==
    IF \E r \in rows : r.user_id = user_id
    THEN {IF r.user_id = user_id THEN [r EXCEPT !.used = FALSE] ELSE r : r \in rows}
    ELSE rows \cup
         {[id |-> BackupRowId(code), user_id |-> user_id, code_hash |-> hash_password(code),
           used |-> FALSE] : code \in BatchCodes(batch)}

generate_backup_codes_NoDelete(rows, user_id, batch) ==
    rows \cup
    {[id |-> BackupRowId(code), user_id |-> user_id, code_hash |-> hash_password(code),
      used |-> FALSE] : code \in BatchCodes(batch)}

\* totp::generate_backup_codes: DELETE the user's codes, INSERT 10 new ones
generate_backup_codes(rows, user_id, batch) ==
    {r \in rows : r.user_id # user_id} \cup
    {[id |-> BackupRowId(code), user_id |-> user_id, code_hash |-> hash_password(code),
      used |-> FALSE] : code \in BatchCodes(batch)}

\* totp::enable_totp
enable_totp(c, code) ==
    LET user_id == Load(c).user_id
        req == [code |-> code]
    IN
    /\ TotpFrame
    /\ UNCHANGED <<active_sessions, store, next_sid, next_secret>>
    /\ IF user_id = None
       THEN /\ Fail("enable_totp", req, c, 401, "Not logged in")
            /\ UNCHANGED <<totp_secrets, backup_codes, next_batch>>
       ELSE IF ~ \E t \in totp_secrets : t.user_id = user_id
       THEN /\ Fail("enable_totp", req, c, 400, "TOTP not set up")
            /\ UNCHANGED <<totp_secrets, backup_codes, next_batch>>
       ELSE LET totp_record == CHOOSE t \in totp_secrets : t.user_id = user_id IN
            IF ~ check_current(totp_record.secret, code)
            THEN /\ Fail("enable_totp", req, c, 400, "Invalid code")
                 /\ UNCHANGED <<totp_secrets, backup_codes, next_batch>>
            ELSE /\ next_batch <= MaxBatches
                 /\ totp_secrets' = {IF t.user_id = user_id
                                     THEN [t EXCEPT !.enabled = TRUE] ELSE t :
                                     t \in totp_secrets}
                 /\ backup_codes' = generate_backup_codes(backup_codes, user_id, next_batch)
                 /\ next_batch' = next_batch + 1
                 /\ last' = [Request("enable_totp", req, c) EXCEPT
                                !.status = 200, !.msg = "success", !.user = user_id,
                                !.data = BatchCodes(next_batch)]

verify_totp_code_AnyState(user_id, code) ==
    \E t \in totp_secrets : t.user_id = user_id /\ check_current(t.secret, code)

\* totp::verify_totp_code: only an enabled secret verifies a code
verify_totp_code(user_id, code) ==
    \E t \in totp_secrets :
        /\ t.user_id = user_id
        /\ t.enabled
        /\ check_current(t.secret, code)

\* totp::verify_and_consume_backup_code, the SELECT: the user's unused rows
UnusedBackupCodes(rows, user_id) == {r \in rows : r.user_id = user_id /\ ~ r.used}

\* ... the loop: the rows whose hash verifies the submitted code
MatchingBackupCodes(rows, user_id, code) ==
    {r \in UnusedBackupCodes(rows, user_id) : verify_password(code, r.code_hash)}

\* ... the UPDATE backup_codes SET used = true WHERE id = $1
MarkUsed(rows, id) == {IF r.id = id THEN [r EXCEPT !.used = TRUE] ELSE r : r \in rows}

\* totp::disable_totp
disable_totp(c, code) ==
    LET user_id == Load(c).user_id
        req == [code |-> code]
    IN
    /\ TotpFrame
    /\ UNCHANGED <<active_sessions, store, next_sid, next_secret, next_batch>>
    /\ IF user_id = None
       THEN /\ Fail("disable_totp", req, c, 401, "Not logged in")
            /\ UNCHANGED <<totp_secrets, backup_codes>>
       ELSE IF ~ verify_totp_code(user_id, code)
       THEN /\ Fail("disable_totp", req, c, 400, "Invalid code")
            /\ UNCHANGED <<totp_secrets, backup_codes>>
       ELSE /\ totp_secrets' = {t \in totp_secrets : t.user_id # user_id}
            /\ backup_codes' = {r \in backup_codes : r.user_id # user_id}
            /\ Ok("disable_totp", req, c, 200, "success", user_id)

\* totp::regenerate_backup_codes
regenerate_backup_codes(c, code) ==
    LET user_id == Load(c).user_id
        req == [code |-> code]
    IN
    /\ TotpFrame
    /\ UNCHANGED <<totp_secrets, active_sessions, store, next_sid, next_secret>>
    /\ IF user_id = None
       THEN /\ Fail("regenerate_backup_codes", req, c, 401, "Not logged in")
            /\ UNCHANGED <<backup_codes, next_batch>>
       ELSE IF ~ verify_totp_code(user_id, code)
       THEN /\ Fail("regenerate_backup_codes", req, c, 400, "Invalid code")
            /\ UNCHANGED <<backup_codes, next_batch>>
       ELSE /\ next_batch <= MaxBatches
            /\ backup_codes' = generate_backup_codes(backup_codes, user_id, next_batch)
            /\ next_batch' = next_batch + 1
            /\ last' = [Request("regenerate_backup_codes", req, c) EXCEPT
                           !.status = 200, !.user = user_id,
                           !.data = BatchCodes(next_batch)]

CompleteLogin_KeepPending(d) == [d EXCEPT !.user_id = d.pending_2fa_user_id]

\* The session after verify_totp's "Complete login": insert user_id, remove
\* pending_2fa_user_id
CompleteLogin(d) == [d EXCEPT !.user_id = d.pending_2fa_user_id,
                              !.pending_2fa_user_id = None]

\* totp::verify_totp (login-time second factor)
verify_totp(c, code) ==
    LET pending_user_id == Load(c).pending_2fa_user_id
        req == [code |-> code]
    IN
    /\ TotpFrame
    /\ UNCHANGED <<totp_secrets, active_sessions, next_sid, next_secret, next_batch>>
    /\ IF pending_user_id = None
       THEN /\ Fail("verify_totp", req, c, 400, "No 2FA pending")
            /\ UNCHANGED <<backup_codes, store>>
       ELSE IF verify_totp_code(pending_user_id, code)
       THEN /\ store' = [store EXCEPT ![c] = CompleteLogin(store[c])]
            /\ UNCHANGED backup_codes
            /\ last' = [Request("verify_totp", req, c) EXCEPT
                           !.status = 200, !.msg = "success", !.user = pending_user_id,
                           !.data = {"totp"}]
       ELSE IF MatchingBackupCodes(backup_codes, pending_user_id, code) # {}
       THEN \E bc \in MatchingBackupCodes(backup_codes, pending_user_id, code) :
            /\ backup_codes' = MarkUsed(backup_codes, bc.id)
            /\ store' = [store EXCEPT ![c] = CompleteLogin(store[c])]
            /\ last' = [Request("verify_totp", req, c) EXCEPT
                           !.status = 200, !.msg = "success", !.user = pending_user_id,
                           !.data = {"backup"}]
       ELSE /\ Fail("verify_totp", req, c, 401, "Invalid code")
            /\ UNCHANGED <<backup_codes, store>>

(* -------------------------- session handlers -------------------------- *)
SessionFrame == UNCHANGED <<users, local_auths, totp_secrets, backup_codes,
                            passkey_credentials, counters, now, inflight>>

\* SELECT ... FROM active_sessions WHERE user_id = $1, with
\* (session_id = $2) AS is_current
ListRows(rows, user_id, current_session_id) ==
    {[id |-> r.id, user_id |-> r.user_id, session_id |-> r.session_id,
      is_current |-> (r.session_id = current_session_id)] :
     r \in {x \in rows : x.user_id = user_id}}

\* session::list_sessions
list_sessions(c) ==
    LET user_id == Load(c).user_id
        current_session_id == session_id(c)
        current_exists == \E s \in ListRows(active_sessions, user_id, current_session_id) :
                              s.session_id = current_session_id
    IN
    /\ SessionFrame
    /\ UNCHANGED store
    /\ IF user_id = None
       THEN /\ Fail("list_sessions", NoReq, c, 401, "Not logged in")
            /\ UNCHANGED active_sessions
       ELSE IF ~ current_exists /\ current_session_id # 0
       THEN /\ active_sessions' = create_session(active_sessions, user_id,
                                                 current_session_id, SessionExpiryHours)
            /\ last' = [Request("list_sessions", NoReq, c) EXCEPT
                           !.status = 200, !.user = user_id,
                           !.upsert = Upsert(user_id, current_session_id),
                           !.data = ListRows(active_sessions', user_id, current_session_id)]
       ELSE /\ UNCHANGED active_sessions
            /\ last' = [Request("list_sessions", NoReq, c) EXCEPT
                           !.status = 200, !.user = user_id,
                           !.data = ListRows(active_sessions, user_id, current_session_id)]

TargetSession_AnyUser(rows, session_db_id, user_id) ==
    {r \in rows : r.id = session_db_id}

\* session::revoke_session, step 1: SELECT session_id FROM active_sessions
\* WHERE id = $1 AND user_id = $2
TargetSession(rows, session_db_id, user_id) ==
    {r \in rows : r.id = session_db_id /\ r.user_id = user_id}

\* session::revoke_session
revoke_session(c, session_db_id) ==
    LET user_id == Load(c).user_id
        target == TargetSession(active_sessions, session_db_id, user_id)
        req == [id |-> session_db_id]
    IN
    /\ SessionFrame
    /\ IF user_id = None
       THEN /\ Fail("revoke_session", req, c, 401, "Not logged in")
            /\ UNCHANGED <<active_sessions, store>>
       ELSE IF target = {}
       THEN /\ last' = [Request("revoke_session", req, c) EXCEPT
                           !.status = 404, !.msg = "Session not found", !.user = user_id]
            /\ UNCHANGED <<active_sessions, store>>
       ELSE /\ active_sessions' = {r \in active_sessions : r.id # session_db_id}
            /\ store' = DeleteStoreEntries({r.session_id : r \in target})
            /\ last' = [Request("revoke_session", req, c) EXCEPT
                           !.status = 200, !.user = user_id,
                           !.sid = IF c \in {r.session_id : r \in target} THEN 0 ELSE c]

OtherSessions_All(rows, user_id, current_session_id) ==
    {r \in rows : r.user_id = user_id}

\* session::revoke_all_other_sessions, the WHERE clause of its SELECT and DELETE
OtherSessions(rows, user_id, current_session_id) ==
    {r \in rows : r.user_id = user_id /\ r.session_id # current_session_id}

\* session::revoke_all_other_sessions
revoke_all_other_sessions(c) ==
    LET user_id == Load(c).user_id
        current_session_id == session_id(c)
        other_sessions == OtherSessions(active_sessions, user_id, current_session_id)
        deleted == {r.session_id : r \in other_sessions}
    IN
    /\ SessionFrame
    /\ IF user_id = None
       THEN /\ Fail("revoke_all_other_sessions", NoReq, c, 401, "Not logged in")
            /\ UNCHANGED <<active_sessions, store>>
       ELSE /\ active_sessions' = active_sessions \ other_sessions
            /\ store' = DeleteStoreEntries(deleted)
            /\ last' = [Request("revoke_all_other_sessions", NoReq, c) EXCEPT
                           !.status = 200, !.user = user_id,
                           !.sid = IF c \in deleted THEN 0 ELSE c,
                           !.data = deleted]

(* ------------------------------ passkeys ------------------------------ *)
PasskeyFrame == UNCHANGED <<users, local_auths, totp_secrets, backup_codes, next_user,
                            next_secret, next_batch, now, inflight>>

NoPassword == "none"

\* passkey::get_user_passkeys, mapped to the credential ids (exclude list)
get_user_passkeys(user_id) ==
    {p.credential_id : p \in {x \in passkey_credentials : x.user_id = user_id}}

\* passkey::start_registration
start_registration(c, password) ==
    LET user_id == Load(c).user_id
        auth == {la \in local_auths : la.user_id = user_id}
        d == [Load(c) EXCEPT !.passkey_reg_state =
                  [chal |-> next_chal, creds |-> get_user_passkeys(user_id)]]
        req == [password |-> password]
    IN
    /\ PasskeyFrame
    /\ UNCHANGED <<passkey_credentials, active_sessions, next_sid>>
    /\ IF user_id = None
       THEN /\ Fail("start_registration", req, c, 401, "Not logged in")
            /\ UNCHANGED <<store, next_chal>>
       ELSE IF \E la \in auth : ~ is_empty(la.password_hash) /\ password = NoPassword
       THEN /\ Fail("start_registration", req, c, 401, "Password required")
            /\ UNCHANGED <<store, next_chal>>
       ELSE IF \E la \in auth : ~ is_empty(la.password_hash)
                                   /\ ~ PasswordHash_new(la.password_hash)
       THEN /\ Fail("start_registration", req, c, 500, "Account password data is invalid")
            /\ UNCHANGED <<store, next_chal>>
       ELSE IF \E la \in auth : ~ is_empty(la.password_hash)
                                   /\ ~ verify_password(password, la.password_hash)
       THEN /\ Fail("start_registration", req, c, 401, "Invalid password")
            /\ UNCHANGED <<store, next_chal>>
       ELSE /\ next_chal <= MaxChal
            /\ store' = [store EXCEPT ![c] = d]
            /\ next_chal' = next_chal + 1
            /\ last' = [Request("start_registration", req, c) EXCEPT
                           !.status = 200, !.user = user_id, !.data = {next_chal}]

finish_passkey_registration_AnyChallenge(att, reg_state) ==
    att.credential_id \notin reg_state.creds

\* Webauthn::finish_passkey_registration: the attestation answers the stored
\* challenge and its credential is not on the exclusion list
finish_passkey_registration(att, reg_state) ==
    /\ att.chal = reg_state.chal
    /\ att.credential_id \notin reg_state.creds

PasskeyRowId(credential_id) == 200 + credential_id

finish_registration_session_Kept(d, inserted) == d

finish_registration_session_Removed(d, inserted) ==
    [d EXCEPT !.passkey_reg_state = NoState]

\* passkey::finish_registration, the session after the INSERT: its error
\* returns before session.remove("passkey_reg_state")
finish_registration_session(d, inserted) ==
    IF inserted THEN [d EXCEPT !.passkey_reg_state = NoState] ELSE d

\* passkey::finish_registration
finish_registration(c, att) ==
    LET user_id == Load(c).user_id
        reg_state == Load(c).passkey_reg_state
    IN
    /\ PasskeyFrame
    /\ UNCHANGED <<active_sessions, next_sid, next_chal>>
    /\ IF user_id = None
       THEN /\ Fail("finish_registration", att, c, 401, "Not logged in")
            /\ UNCHANGED <<passkey_credentials, store>>
       ELSE IF reg_state = NoState
       THEN /\ Fail("finish_registration", att, c, 400, "No registration in progress")
            /\ UNCHANGED <<passkey_credentials, store>>
       ELSE IF ~ finish_passkey_registration(att, reg_state)
       THEN /\ Fail("finish_registration", att, c, 400, "Registration failed")
            /\ UNCHANGED <<passkey_credentials, store>>
       ELSE IF \E p \in passkey_credentials : p.credential_id = att.credential_id
       THEN \* the INSERT fails: the credential id is already stored
            /\ Fail("finish_registration", att, c, 500, "db error")
            /\ UNCHANGED <<passkey_credentials, store>>
       ELSE /\ passkey_credentials' = passkey_credentials \cup
                   {[id |-> PasskeyRowId(att.credential_id), user_id |-> user_id,
                     credential_id |-> att.credential_id, counter |-> att.counter,
                     last_used_at |-> -1]}
            /\ store' = [store EXCEPT ![c] = finish_registration_session(Load(c), TRUE)]
            /\ Ok("finish_registration", att, c, 200, "success", user_id)

\* The Passkey values start_passkey_authentication copies into the state
PasskeySnapshot(rows) ==
    {[credential_id |-> p.credential_id, counter |-> p.counter] : p \in rows}

\* passkey::start_authentication
start_authentication(c) ==
    LET d == [Load(c) EXCEPT !.passkey_auth_state =
                  [chal |-> next_chal, creds |-> PasskeySnapshot(passkey_credentials)]]
    IN
    /\ PasskeyFrame
    /\ UNCHANGED <<passkey_credentials, active_sessions>>
    /\ IF passkey_credentials = {}
       THEN /\ Fail("start_authentication", NoReq, c, 400, "No passkeys registered")
            /\ UNCHANGED <<store, next_sid, next_chal>>
       ELSE /\ next_chal <= MaxChal
            /\ CanSave(c, d)
            /\ Save(c, d)
            /\ next_chal' = next_chal + 1
            /\ last' = [Request("start_authentication", NoReq, c) EXCEPT
                           !.status = 200, !.sid = SavedSid(c, d), !.data = {next_chal}]

\* Webauthn::finish_passkey_authentication: the assertion is signed over the
\* state's challenge by a credential of the state, and its counter is checked
\* against the counter that credential has in the state
finish_passkey_authentication(asr, auth_state) ==
    /\ asr.chal = auth_state.chal
    /\ \E cred \in auth_state.creds :
          /\ cred.credential_id = asr.credential_id
          /\ (asr.counter > 0 \/ cred.counter > 0) => asr.counter > cred.counter

update_credential_Stale(counter, result_counter) == counter

\* Passkey::update_credential: the counter only moves up
update_credential(counter, result_counter) ==
    IF result_counter > counter THEN result_counter ELSE counter

stored_credential_Any(credential_id) == passkey_credentials

\* SELECT id, user_id, public_key FROM passkey_credentials WHERE credential_id = $1
stored_credential(credential_id) ==
    {p \in passkey_credentials : p.credential_id = credential_id}

\* passkey::finish_authentication
finish_authentication(c, asr) ==
    LET auth_state == Load(c).passkey_auth_state
        stored == stored_credential(asr.credential_id)
    IN
    /\ PasskeyFrame
    /\ UNCHANGED <<next_sid, next_chal>>
    /\ IF auth_state = NoState
       THEN /\ Fail("finish_authentication", asr, c, 400, "No authentication in progress")
            /\ UNCHANGED <<passkey_credentials, active_sessions, store>>
       ELSE IF stored = {}
       THEN /\ Fail("finish_authentication", asr, c, 401, "Unknown credential")
            /\ UNCHANGED <<passkey_credentials, active_sessions, store>>
       ELSE IF ~ finish_passkey_authentication(asr, auth_state)
       THEN /\ Fail("finish_authentication", asr, c, 401, "Authentication failed")
            /\ UNCHANGED <<passkey_credentials, active_sessions, store>>
       ELSE LET p == CHOOSE x \in stored : TRUE IN
            /\ passkey_credentials' = (passkey_credentials \ {p}) \cup
                   {[p EXCEPT !.counter = update_credential(p.counter, asr.counter),
                              !.last_used_at = now]}
            /\ store' = [store EXCEPT ![c].user_id = p.user_id,
                                      ![c].passkey_auth_state = NoState]
            /\ active_sessions' = TrackSession(active_sessions, p.user_id, session_id(c))
            /\ last' = [Request("finish_authentication", asr, c) EXCEPT
                           !.status = 200, !.msg = "success", !.user = p.user_id,
                           !.upsert = Upsert(p.user_id, session_id(c))]

(* ------------------------------- admin -------------------------------- *)
\* bin/make_admin: UPDATE users SET role = 'admin' WHERE username = $1
make_admin(username) ==
    /\ \E u \in users : u.username = username /\ u.role # "admin"
    /\ users' = {IF u.username = username THEN [u EXCEPT !.role = "admin"] ELSE u :
                 u \in users}
    /\ last' = Request("make_admin", [username |-> username], 0)
    /\ UNCHANGED <<local_auths, totp_secrets, backup_codes, passkey_credentials,
                   active_sessions, store, counters, now, inflight>>

\* user::create_test_user: a users row and a local_auths row with a dummy hash
create_test_user(c) ==
    LET user_id == Load(c).user_id IN
    /\ UNCHANGED <<totp_secrets, backup_codes, passkey_credentials, active_sessions,
                   store, next_sid, next_secret, next_batch, next_chal, now, inflight>>
    /\ IF user_id = None
       THEN /\ Fail("create_test_user", NoReq, c, 401, "Not logged in")
            /\ UNCHANGED <<users, local_auths, next_user>>
       ELSE IF ~ \E u \in users : u.id = user_id /\ u.role = "admin"
       THEN /\ Fail("create_test_user", NoReq, c, 403, "Admins only")
            /\ UNCHANGED <<users, local_auths, next_user>>
       ELSE /\ next_user <= MaxUsers
            /\ ~ \E la \in local_auths : la.email = TestEmail
            /\ users' = users \cup {[id |-> next_user, username |-> TestEmail.local,
                                     role |-> "user"]}
            /\ local_auths' = local_auths \cup
                   {[user_id |-> next_user, email |-> TestEmail,
                     password_hash |-> DummyHash]}
            /\ next_user' = next_user + 1
            /\ Ok("create_test_user", NoReq, c, 200, "", next_user)

(* ------------------------------- clock -------------------------------- *)
Tick ==
    /\ now < MaxTime
    /\ now' = now + 1
    /\ UNCHANGED <<db, store, counters, inflight, last>>

(* --------------------------- specifications --------------------------- *)
\* The codes the model submits: the TOTP code of each secret at time step 0,
\* one backup code of each batch, and a code that is neither
Codes == {TotpCode(s, 0) : s \in 1..MaxSecrets}
             \cup {BackupCode((b - 1) * BackupBatchSize + 1) : b \in 1..MaxBatches}
             \cup {BadCode}

\* Password login with the second factor, OAuth and session tracking
Next ==
    \/ \E c \in Cookies : signup(c, AnnEmail, "secret1", "Ann")
    \/ \E c \in Cookies, p \in Passwords : login(c, AnnEmail, p)
    \/ \E c \in Cookies : google_callback(c, AnnEmail)
    \/ \E c \in Cookies : setup_totp(c)
    \/ \E c \in Cookies, code \in Codes : enable_totp(c, code)
    \/ \E c \in Cookies, code \in Codes : verify_totp(c, code)
    \/ \E c \in Cookies, code \in Codes : disable_totp(c, code)
    \/ \E c \in Cookies : list_sessions(c)
    \/ \E c \in Cookies : logout(c)

Spec == Init /\ [][Next]_vars

(* ------------------ properties: second factor at login ----------------- *)
\* The active_sessions rows of a session id
RowsOf(rows, sid) == {r \in rows : r.session_id = sid}

\* The user's totp_secrets row is enabled
TotpEnabled(user_id) == \E t \in totp_secrets : t.user_id = user_id /\ t.enabled

\* The step is a login that passed the password check of a user with TOTP enabled
LoginOfTotpUser ==
    /\ last'.op = "login"
    /\ last'.status = 200
    /\ TotpEnabled(last'.user)

\* ... and it stored the pending state only
LoginPends ==
    LET s == last'.sid IN
    /\ last'.msg = "requires_2fa"
    /\ s \in DOMAIN store'
    /\ store'[s].pending_2fa_user_id = last'.user
    /\ store'[s].user_id = Load(last'.cookie).user_id
    /\ active_sessions' = active_sessions
    /\ last'.upsert = NoUpsert

\* The step is a successful verify_totp on session s
VerifiedOn(s) ==
    last'.op = "verify_totp" /\ last'.status = 200 /\ last'.cookie = s

\* The step completes another authentication on session s
AuthenticatedOn(s) ==
    /\ last'.cookie = s
    /\ \/ last'.op = "login" /\ last'.status = 200 /\ last'.msg = "Login successful"
       \/ last'.op = "signup" /\ last'.status = 201
       \/ last'.op \in {"google_callback", "github_callback"} /\ last'.status = 303
       \/ last'.op = "finish_authentication" /\ last'.status = 200

\* The step lists the sessions of the principal session s already has
ObservedOn(s) ==
    /\ last'.op = "list_sessions" /\ last'.status = 200 /\ last'.cookie = s
    /\ last'.user = store[s].user_id

C1_OriginalStep ==
    /\ LoginOfTotpUser => LoginPends
    /\ \A s \in DOMAIN store \cap DOMAIN store' :
          LET u == store[s].pending_2fa_user_id IN
          (u # None /\ TotpEnabled(u) /\ store[s].user_id # u) =>
              ((store'[s].user_id = u
                   \/ RowsOf(active_sessions', s) # RowsOf(active_sessions, s))
               => VerifiedOn(s))

\* C1 as stated: a correct-password login of a user with TOTP enabled stores
\* the pending user, answers requires_2fa, sets no principal and touches no
\* session record; and from then on the session is not given that principal,
\* and no record of it is created or updated, by any step other than a
\* successful verify_totp on that session.
C1_PendingUntilVerified == [][C1_OriginalStep]_vars

C1_AmendedStep ==
    /\ LoginOfTotpUser => LoginPends
    /\ \A s \in DOMAIN store \cap DOMAIN store' :
          LET u == store[s].pending_2fa_user_id IN
          u # None =>
              /\ store'[s].user_id # store[s].user_id
                     => (VerifiedOn(s) \/ AuthenticatedOn(s))
              /\ RowsOf(active_sessions', s) # RowsOf(active_sessions, s)
                     => (AuthenticatedOn(s) \/ ObservedOn(s))

\* C1, amended: a correct-password login of a user with TOTP enabled stores the
\* pending user, answers requires_2fa, leaves the session principal as it was
\* and touches no session record; while a session holds a pending user, its
\* principal changes only by a successful verify_totp on it or by another
\* authentication completing on it (signup, password login of a user without
\* TOTP, OAuth callback, passkey assertion), and a session record of it is
\* created or updated only by such an authentication or by list_sessions of
\* the principal it already has.
C1_PendingUntilCompleted == [][C1_AmendedStep]_vars

\* A login has just left an anonymous session pending, with no session record
C1_Witness ==
    /\ last.op = "login" /\ last.msg = "requires_2fa"
    /\ last.sid \in DOMAIN store
    /\ store[last.sid].pending_2fa_user_id = last.user
    /\ store[last.sid].user_id = None
    /\ TotpEnabled(last.user)
    /\ RowsOf(active_sessions, last.sid) = {}

(* ------------- verify_totp, statement by statement (races) ------------- *)
\* Handlers run concurrently: between the SELECT of the unused backup codes
\* and the UPDATE that marks one used, other requests are served.  inflight
\* holds every verify_totp request made, in order of arrival: its input, the
\* session data it loaded, the rows its SELECT returned, and, once answered,
\* its outcome.
verify_totp_request(c, code, pc, status, by, rows) ==
    [cookie |-> c, code |-> code, session |-> Load(c), pc |-> pc, status |-> status,
     by |-> by, rows |-> rows, row |-> 0]

\* totp::verify_totp up to the SELECT of verify_and_consume_backup_code; the
\* request is answered here when it is rejected for having no pending user,
\* or accepted on a TOTP code
verify_totp_begin(c, code) ==
    LET pending_user_id == Load(c).pending_2fa_user_id
        req == [code |-> code]
    IN
    /\ Len(inflight) < MaxRequests
    /\ UNCHANGED <<db, counters, now>>
    /\ IF pending_user_id = None
       THEN /\ inflight' = Append(inflight, verify_totp_request(c, code, "done", 400, "", {}))
            /\ Fail("verify_totp", req, c, 400, "No 2FA pending")
            /\ UNCHANGED store
       ELSE IF verify_totp_code(pending_user_id, code)
       THEN /\ inflight' = Append(inflight, verify_totp_request(c, code, "done", 200, "totp", {}))
            /\ store' = [store EXCEPT ![c] = CompleteLogin(store[c])]
            /\ last' = [Request("verify_totp", req, c) EXCEPT
                           !.status = 200, !.msg = "success", !.user = pending_user_id,
                           !.data = {"totp"}]
       ELSE /\ inflight' = Append(inflight,
                   verify_totp_request(c, code, "selected", 0, "",
                                       UnusedBackupCodes(backup_codes, pending_user_id)))
            /\ UNCHANGED <<store, last>>

\* The session layer's save of the data the request loaded and changed
SaveLoaded(c, d) == (c :> d) @@ store

\* ... the rest of the request: the loop over the selected rows, the UPDATE of
\* the first row that verifies the code, and "Complete login"
verify_totp_end(i) ==
    LET r == inflight[i]
        req == [code |-> r.code]
        matching == {bc \in r.rows : verify_password(r.code, bc.code_hash)}
    IN
    /\ r.pc = "selected"
    /\ UNCHANGED <<users, local_auths, totp_secrets, passkey_credentials, active_sessions,
                   counters, now>>
    /\ IF matching = {}
       THEN /\ inflight' = [inflight EXCEPT ![i].pc = "done", ![i].status = 401]
            /\ Fail("verify_totp", req, r.cookie, 401, "Invalid code")
            /\ UNCHANGED <<backup_codes, store>>
       ELSE \E bc \in matching :
            /\ backup_codes' = MarkUsed(backup_codes, bc.id)
            /\ store' = SaveLoaded(r.cookie, CompleteLogin(r.session))
            /\ inflight' = [inflight EXCEPT ![i].pc = "done", ![i].status = 200,
                                            ![i].by = "backup", ![i].row = bc.id]
            /\ last' = [Request("verify_totp", req, r.cookie) EXCEPT
                           !.status = 200, !.msg = "success",
                           !.user = r.session.pending_2fa_user_id, !.data = {"backup"}]

\* The codes submitted at login: a backup code of the first batch, the TOTP
\* code of the first secret, and a code that is neither
LoginCodes == {BackupCode(1), TotpCode(1, 0), BadCode}

\* Concurrent second-factor completion
NextBackupRace ==
    \/ \E c \in Cookies : signup(c, AnnEmail, "secret1", "Ann")
    \/ \E c \in Cookies : login(c, AnnEmail, "secret1")
    \/ \E c \in Cookies : setup_totp(c)
    \/ \E c \in Cookies : enable_totp(c, TotpCode(1, 0))
    \/ \E c \in Cookies, code \in LoginCodes : verify_totp_begin(c, code)
    \/ \E i \in DOMAIN inflight : verify_totp_end(i)

SpecBackupRace == Init /\ [][NextBackupRace]_vars

\* The requests accepted on the strength of a backup_codes row
AcceptedOn(row) ==
    {i \in DOMAIN inflight :
        inflight[i].status = 200 /\ inflight[i].by = "backup" /\ inflight[i].row = row}

\* C2: for every backup code, at most one verify_totp request is ever accepted
\* on the strength of that code, also when the requests run concurrently,
\* interleaved between the SELECT of the unused codes and the UPDATE used = true.
C2_OneAcceptancePerCode ==
    \A bc \in backup_codes : Cardinality(AcceptedOn(bc.id)) <= 1

(* ------------------------- passkey ceremonies -------------------------- *)
\* What an authenticator (or a clone of it) holding credential 1 can send: an
\* attestation or an assertion over any challenge, with any counter
Attestations == [chal : 1..MaxChal, credential_id : {1}, counter : {0}]
Assertions == [chal : 1..MaxChal, credential_id : {1, 2}, counter : 0..MaxCounter]

NextPasskey ==
    \/ \E c \in Cookies : signup(c, AnnEmail, "secret1", "Ann")
    \/ \E c \in Cookies : start_registration(c, "secret1")
    \/ \E c \in Cookies, att \in Attestations : finish_registration(c, att)
    \/ \E c \in Cookies : start_authentication(c)
    \/ \E c \in Cookies, asr \in Assertions : finish_authentication(c, asr)

SpecPasskey == Init /\ [][NextPasskey]_vars

\* The step is an accepted passkey assertion
AssertionAccepted == last'.op = "finish_authentication" /\ last'.status = 200

\* The counter stored for a credential id
StoredCounters(credential_id) ==
    {p.counter : p \in {x \in passkey_credentials : x.credential_id = credential_id}}

C3_Step ==
    AssertionAccepted =>
        \A counter \in StoredCounters(last'.req.credential_id) :
            (last'.req.counter > 0 \/ counter > 0) => last'.req.counter > counter

\* C3: finish_authentication accepts no assertion whose signature counter is
\* less than or equal to the counter stored for its credential (for an
\* authenticator that counts), whatever challenge state the session holds.
C3_CounterAdvances == [][C3_Step]_vars

(* ----------------------------- OAuth logins ---------------------------- *)
NextOAuth ==
    \/ \E c \in Cookies, email \in SignupEmails : google_callback(c, email)
    \/ \E c \in Cookies, github_login \in GithubLogins, email \in SignupEmails :
           github_callback(c, github_login, email)
    \/ \E c \in Cookies : signup(c, AnnEmail, "secret1", "Ann")
    \/ \E c \in Cookies : logout(c)

SpecOAuth == Init /\ [][NextOAuth]_vars

OAuthOps == {"google_callback", "github_callback"}

\* The last request was an OAuth login that made the user of its email, and
\* the step is an OAuth login with the same email
SecondOAuthLogin ==
    /\ last.op \in OAuthOps /\ last.status = 303 /\ last.log = "new user"
    /\ last'.op \in OAuthOps
    /\ last'.req.email = last.req.email

C4_Step ==
    SecondOAuthLogin =>
        /\ last'.status = 303
        /\ last'.user = last.user
        /\ users' = users

\* C4: an OAuth login with an email first seen through OAuth, repeated,
\* succeeds, finalizes the session for the user the first login created, and
\* creates no further user.
C4_SameUserAgain == [][C4_Step]_vars

(* --------------------------- session records --------------------------- *)
\* The record ids a caller may name: the id of each session's record, and an
\* id no record has
AsrIds == {AsrId(sid) : sid \in 0..MaxSessions}

NextSessions ==
    \/ \E c \in Cookies : signup(c, AnnEmail, "secret1", "Ann")
    \/ \E c \in Cookies : signup(c, BobEmail, "secret1", "bob")
    \/ \E c \in Cookies, email \in SignupEmails : login(c, email, "secret1")
    \/ \E c \in Cookies : list_sessions(c)
    \/ \E c \in Cookies, id \in AsrIds : revoke_session(c, id)
    \/ \E c \in Cookies : revoke_all_other_sessions(c)
    \/ \E c \in Cookies : logout(c)

SpecSessions == Init /\ [][NextSessions]_vars

C5_Step ==
    (last'.op = "revoke_all_other_sessions" /\ last'.status = 200) =>
        LET c == last'.cookie IN
        /\ c \in DOMAIN store
        /\ c \in DOMAIN store'
        /\ store'[c] = store[c]
        /\ store'[c].user_id = last'.user
        /\ RowsOf(active_sessions', c) = RowsOf(active_sessions, c)

\* C5: revoke_all_other_sessions deletes neither the session record whose
\* session_id is the caller's current session id nor the caller's entry in the
\* session store: after the call the caller's session is authenticated as the
\* same user, whatever other sessions that user has.
C5_CallerSurvives == [][C5_Step]_vars

\* The caller revoked another session of theirs and kept the current one
C5_Witness ==
    /\ last.op = "revoke_all_other_sessions" /\ last.status = 200
    /\ last.data # {}
    /\ last.cookie \in DOMAIN store
    /\ store[last.cookie].user_id = last.user
    /\ \E r \in RowsOf(active_sessions, last.cookie) : r.user_id = last.user

\* The step is a revoke_session of an authenticated caller naming an id that
\* no record of the caller has
RevokeOfForeignId ==
    /\ last'.op = "revoke_session"
    /\ Load(last'.cookie).user_id # None
    /\ ~ \E r \in active_sessions :
           r.id = last'.req.id /\ r.user_id = Load(last'.cookie).user_id

C6_Step ==
    RevokeOfForeignId =>
        /\ last'.status = 404
        /\ last'.msg = "Session not found"
        /\ last'.data = {}
        /\ active_sessions' = active_sessions
        /\ store' = store

\* C6: revoke_session with a record id that does not exist, or that belongs to
\* another user, answers 404 'Session not found' and deletes no session record
\* and no session-store entry; the answer is the same in the two cases.
C6_ForeignIdNotFound == [][C6_Step]_vars

\* A caller has just been refused the record of another user, which is still there
C6_Witness ==
    /\ last.op = "revoke_session" /\ last.status = 404
    /\ \E r \in active_sessions :
          /\ r.id = last.req.id
          /\ r.user_id # last.user
          /\ r.session_id \in DOMAIN store

(* --------------- properties: finalize, verify_totp, enable ------------- *)
\* The last request established the session principal on a session whose id
\* was available to the handler
PrincipalEstablished ==
    /\ last.cookie \in DOMAIN store
    /\ last.sid = last.cookie
    /\ \/ last.op = "signup" /\ last.status = 201
       \/ last.op = "login" /\ last.status = 200 /\ last.msg = "Login successful"
       \/ last.op \in OAuthOps /\ last.status = 303
       \/ last.op = "finish_authentication" /\ last.status = 200
       \/ last.op = "verify_totp" /\ last.status = 200

\* C7: every operation that establishes the session principal (signup, login
\* without 2FA, OAuth callback, passkey finish_authentication, verify_totp)
\* also upserts a session record for that session id and user with the 24-hour
\* expiry when the session id is available; after a successful verify_totp a
\* session record exists for the session.
C7_FinalizeTracksSession ==
    PrincipalEstablished =>
        /\ last.upsert = [user |-> last.user, sid |-> last.cookie]
        /\ \E r \in RowsOf(active_sessions, last.cookie) :
               r.expires_in = SessionExpiryHours

\* The code is what verify_totp accepts for the user: the TOTP code of the
\* user's enabled secret within the skew, or a backup code of an unused row
ValidSecondFactor(user_id, code) ==
    \/ \E t \in totp_secrets :
          /\ t.user_id = user_id /\ t.enabled
          /\ code.kind = "totp" /\ code.a = t.secret
          /\ code.b + TotpSkew >= now /\ code.b <= now + TotpSkew
    \/ \E r \in backup_codes :
          /\ r.user_id = user_id /\ ~ r.used
          /\ r.code_hash = hash_password(code)

C8_Step ==
    last'.op = "verify_totp" =>
        LET c == last'.cookie
            pending == Load(c).pending_2fa_user_id
        IN
        IF pending = None
        THEN /\ last'.status = 400 /\ last'.msg = "No 2FA pending"
             /\ store' = store
        ELSE IF ValidSecondFactor(pending, last'.req.code)
        THEN /\ last'.status = 200
             /\ store'[c].user_id = pending
             /\ store'[c].pending_2fa_user_id = None
        ELSE /\ last'.status = 401
             /\ store' = store

\* C8: verify_totp on a session with a pending user and a valid code (TOTP or
\* unused backup code) makes the pending user the principal and removes the
\* pending state; with an invalid code it fails and leaves principal and
\* pending state as they were (so a later valid code still succeeds); with no
\* pending state it fails with 'No 2FA pending' and sets no principal.
C8_SecondFactorCompletion == [][C8_Step]_vars

\* A backup code has just completed the login of a pending session
C8_Witness ==
    /\ last.op = "verify_totp" /\ last.status = 200 /\ last.data = {"backup"}
    /\ store[last.cookie].user_id = last.user
    /\ store[last.cookie].pending_2fa_user_id = None
    /\ \E r \in backup_codes : r.user_id = last.user /\ r.used

\* The backup_codes rows of a user
CodesOf(user_id) == {r \in backup_codes : r.user_id = user_id}

\* C10: after enable_totp succeeds the user's TOTP state is Enabled and the
\* user's backup codes are exactly the 10 codes the call returned, all unused;
\* no code of an earlier batch is redeemable.
C10_EnableReplacesBatch ==
    (last.op = "enable_totp" /\ last.status = 200) =>
        /\ TotpEnabled(last.user)
        /\ Cardinality(last.data) = BackupBatchSize
        /\ Cardinality(CodesOf(last.user)) = BackupBatchSize
        /\ {r.code_hash : r \in CodesOf(last.user)} = {hash_password(code) : code \in last.data}
        /\ \A r \in CodesOf(last.user) : ~ r.used
        /\ \A b \in 1..MaxBatches : \A code \in BatchCodes(b) \ last.data :
               ~ ValidSecondFactor(last.user, code)

\* TOTP has just been enabled a second time for the only user: the second
\* batch has replaced the first
C10_Witness ==
    /\ last.op = "enable_totp" /\ last.status = 200
    /\ last.data = BatchCodes(2)
    /\ Cardinality(users) = 1
    /\ CodesOf(last.user) # {}

(* --------------------------- password login ---------------------------- *)
\* Logins against signed-up users and against the user create_test_user makes,
\* whose stored hash is no PHC string
NextLogin ==
    \/ \E c \in Cookies : signup(c, AnnEmail, "secret1", "Ann")
    \/ make_admin("ann")
    \/ \E c \in Cookies : create_test_user(c)
    \/ \E c \in Cookies, email \in Emails, p \in Passwords : login(c, email, p)
    \/ \E c \in Cookies : setup_totp(c)
    \/ \E c \in Cookies : enable_totp(c, TotpCode(1, 0))
    \/ \E c \in Cookies : logout(c)

SpecLogin == Init /\ [][NextLogin]_vars

\* The local_auths rows of an email
AuthsOf(email) == {la \in local_auths : la.email = email}

\* The login request names an unknown email, or an email whose stored hash
\* does not parse, or gives a password the stored hash does not verify
BadCredentials(req) ==
    \/ AuthsOf(req.email) = {}
    \/ \E la \in AuthsOf(req.email) : la.password_hash.alg # "argon2id"
    \/ \E la \in AuthsOf(req.email) : la.password_hash.pw # req.password

C9_Step ==
    (last'.op = "login" /\ BadCredentials(last'.req)) =>
        /\ last'.status = 401
        /\ last'.msg = "Invalid email or password"
        /\ last'.data = {}
        /\ store' = store
        /\ active_sessions' = active_sessions

\* C9: login answers 401 'Invalid email or password' alike for an unknown
\* email, a wrong password and a stored hash that cannot be parsed, and leaves
\* the session principal, the pending-2FA state and the session records as
\* they were.
C9_UniformLoginFailure == [][C9_Step]_vars

\* A login against the unparseable hash has just been refused, on a session
\* that holds a pending second factor
C9_Witness ==
    /\ last.op = "login" /\ last.status = 401
    /\ \E la \in AuthsOf(last.req.email) : la.password_hash = DummyHash
    /\ last.cookie \in DOMAIN store
    /\ store[last.cookie].pending_2fa_user_id # None

(* ------------------------- TOTP enrolment ------------------------------ *)
\* Enrolment, disabling and regeneration for one user, with the clock moving
NextTotp ==
    \/ \E c \in Cookies : signup(c, AnnEmail, "secret1", "Ann")
    \/ \E c \in Cookies : login(c, AnnEmail, "secret1")
    \/ \E c \in Cookies : setup_totp(c)
    \/ \E c \in Cookies, code \in Codes : enable_totp(c, code)
    \/ \E c \in Cookies, code \in Codes : disable_totp(c, code)
    \/ \E c \in Cookies, code \in Codes : regenerate_backup_codes(c, code)
    \/ \E c \in Cookies, code \in Codes : verify_totp(c, code)
    \/ Tick

SpecTotp == Init /\ [][NextTotp]_vars

\* The step serves a request (the clock stands still)
ServesRequest == now' = now

\* The code is the TOTP code of the secret for the current time step or one next to it
ValidTotpFor(secret, code) ==
    /\ code.kind = "totp" /\ code.a = secret
    /\ code.b + TotpSkew >= now /\ code.b <= now + TotpSkew

\* The totp_secrets rows of a user
SecretsOf(user_id) == {t \in totp_secrets : t.user_id = user_id}

\* The users that have rows in totp_secrets before or after the step
TotpUsers == {t.user_id : t \in totp_secrets \cup totp_secrets'}

C11_Step ==
    ServesRequest =>
        /\ \A u \in TotpUsers :
              ((\E t \in totp_secrets' : t.user_id = u /\ t.enabled)
                  /\ ~ TotpEnabled(u)) =>
                  /\ last'.op = "enable_totp" /\ last'.status = 200
                  /\ Load(last'.cookie).user_id = u
                  /\ \E t \in SecretsOf(u) :
                        /\ ValidTotpFor(t.secret, last'.req.code)
                        /\ [t EXCEPT !.enabled = TRUE] \in totp_secrets'
        /\ (last'.op = "enable_totp" /\ Load(last'.cookie).user_id # None) =>
              LET u == Load(last'.cookie).user_id IN
              IF SecretsOf(u) = {}
              THEN /\ last'.status = 400 /\ last'.msg = "TOTP not set up"
                   /\ totp_secrets' = totp_secrets /\ backup_codes' = backup_codes
              ELSE (\A t \in SecretsOf(u) : ~ ValidTotpFor(t.secret, last'.req.code)) =>
                   /\ last'.status = 400 /\ last'.msg = "Invalid code"
                   /\ totp_secrets' = totp_secrets /\ backup_codes' = backup_codes

\* C11: a user's TOTP secret becomes enabled only by enable_totp of that user
\* with a code valid for the secret stored for them; enable_totp with an
\* invalid code fails with 'Invalid code' and with no stored secret fails with
\* 'TOTP not set up', leaving secret, enabled flag and backup codes as they
\* were; no other operation sets enabled.
C11_EnabledOnlyByValidCode == [][C11_Step]_vars

\* enable_totp has just refused a code that the clock has made stale
C11_Witness ==
    /\ last.op = "enable_totp" /\ last.status = 400 /\ last.msg = "Invalid code"
    /\ \E t \in SecretsOf(Load(last.cookie).user_id) :
          /\ ~ t.enabled
          /\ last.req.code = TotpCode(t.secret, 0)

\* The caller of the request served by the step
CallerOf(l) == Load(l.cookie).user_id

\* The rows of other users stay as they were
OthersUntouched(u) ==
    /\ {t \in totp_secrets' : t.user_id # u} = {t \in totp_secrets : t.user_id # u}
    /\ {r \in backup_codes' : r.user_id # u} = {r \in backup_codes : r.user_id # u}

C12_Step ==
    (ServesRequest /\ last'.op = "disable_totp" /\ CallerOf(last') # None) =>
        LET u == CallerOf(last') IN
        IF \E t \in SecretsOf(u) : t.enabled /\ ValidTotpFor(t.secret, last'.req.code)
        THEN /\ last'.status = 200
             /\ \A t \in totp_secrets' : t.user_id # u
             /\ \A r \in backup_codes' : r.user_id # u
             /\ OthersUntouched(u)
        ELSE /\ last'.status = 400 /\ last'.msg = "Invalid code"
             /\ totp_secrets' = totp_secrets /\ backup_codes' = backup_codes

\* C12: disable_totp deletes the caller's TOTP secret and all their backup
\* codes exactly when the caller presents a currently valid TOTP code for an
\* enabled secret; a backup code, an invalid code or a secret that is not
\* enabled gives 'Invalid code' and changes nothing; after a success the user
\* has no TOTP secret and no backup code.
C12_DisableNeedsValidTotp == [][C12_Step]_vars

\* disable_totp has just refused an unused backup code of a user with TOTP enabled
C12_Witness ==
    /\ last.op = "disable_totp" /\ last.status = 400
    /\ TotpEnabled(CallerOf(last))
    /\ \E r \in CodesOf(CallerOf(last)) :
          ~ r.used /\ last.req.code = r.code_hash.pw

\* disable_totp has just removed the secret and the codes of the caller
C12_Disabled ==
    /\ last.op = "disable_totp" /\ last.status = 200
    /\ SecretsOf(CallerOf(last)) = {} /\ CodesOf(CallerOf(last)) = {}

(* ------------------------- auth::set_password -------------------------- *)
\* The shortest password set_password takes
MinPasswordLen == 6

set_password_Unchecked(c, email, new_password) ==
    LET user_id == Load(c).user_id
        req == [email |-> email, new_password |-> new_password]
    IN
    /\ UNCHANGED <<users, totp_secrets, backup_codes, passkey_credentials,
                   active_sessions, store, counters, now, inflight>>
    /\ IF user_id = None
       THEN /\ Fail("set_password", req, c, 401, "Not logged in")
            /\ UNCHANGED local_auths
       ELSE /\ local_auths' = local_auths \cup
                   {[user_id |-> user_id, email |-> email,
                     password_hash |-> hash_password(new_password)]}
            /\ Ok("set_password", req, c, 200, "Password set successfully", user_id)

\* auth::set_password: an authenticated user without a local_auths row gets
\* one, for an email no row has
set_password(c, email, new_password) ==
    LET user_id == Load(c).user_id
        req == [email |-> email, new_password |-> new_password]
    IN
    /\ UNCHANGED <<users, totp_secrets, backup_codes, passkey_credentials,
                   active_sessions, store, counters, now, inflight>>
    /\ IF user_id = None
       THEN /\ Fail("set_password", req, c, 401, "Not logged in")
            /\ UNCHANGED local_auths
       ELSE IF \E la \in local_auths : la.user_id = user_id
       THEN /\ Fail("set_password", req, c, 400,
                    "Password already set. Use change-password instead.")
            /\ UNCHANGED local_auths
       ELSE IF \E la \in local_auths : la.email = email
       THEN /\ Fail("set_password", req, c, 400, "Email already in use")
            /\ UNCHANGED local_auths
       ELSE IF Len(new_password) < MinPasswordLen
       THEN /\ Fail("set_password", req, c, 400, "Password must be at least 6 characters")
            /\ UNCHANGED local_auths
       ELSE /\ local_auths' = local_auths \cup
                   {[user_id |-> user_id, email |-> email,
                     password_hash |-> hash_password(new_password)]}
            /\ Ok("set_password", req, c, 200, "Password set successfully", user_id)

(* ------------------------------ signup --------------------------------- *)
\* Signups with two emails and three names (one reserved) next to OAuth logins
NextSignup ==
    \/ \E c \in Cookies, email \in SignupEmails, username \in Usernames \cup {"admin"} :
           signup(c, email, "secret1", username)
    \/ \E c \in Cookies, email \in SignupEmails : google_callback(c, email)
    \/ \E c \in Cookies, email \in SignupEmails, p \in {"secret1", "short"} :
           set_password(c, email, p)
    \/ \E c \in Cookies : logout(c)

SpecSignup == Init /\ [][NextSignup]_vars

C13_Step ==
    last'.op = "signup" =>
        LET new_users == users' \ users
            new_auths == local_auths' \ local_auths
        IN
        /\ users \subseteq users' /\ local_auths \subseteq local_auths'
        /\ \/ new_users = {} /\ new_auths = {}
           \/ \E u \in new_users, la \in new_auths :
                 /\ new_users = {u} /\ new_auths = {la}
                 /\ la.user_id = u.id /\ la.email = last'.req.email
        /\ last'.status # 201 => (new_users = {} /\ new_auths = {})
        /\ last'.status = 201 => new_users # {}
        /\ (\E la \in local_auths : la.email = last'.req.email) =>
               /\ last'.status = 409 /\ last'.msg = "Email already exists"
               /\ users' = users

\* C13: signup creates the User and its LocalAuthCredential together or not
\* at all, also when either insert or the commit fails, and a signup whose
\* email already has a LocalAuthCredential fails with 409 'Email already
\* exists' and creates no User.
C13_SignupAllOrNothing == [][C13_Step]_vars

\* A signup whose commit failed has left neither a user of its name nor a
\* credential of its email
C13_Witness ==
    /\ last.op = "signup" /\ last.status = 500 /\ last.msg = "commit failed"
    /\ \A u \in users : u.username # to_lowercase(last.req.username)
    /\ \A la \in local_auths : la.email # last.req.email

\* A signup refused for an email that is already taken
C13_Conflict == last.op = "signup" /\ last.status = 409

(* ------------- signup and set_password, statement by statement --------- *)
\* Between the SELECT that checks the email and the INSERT INTO local_auths,
\* other requests are served.  inflight holds the requests that have passed
\* their checks and not yet inserted.
email_request(op, c, email, password, username) ==
    [op |-> op, cookie |-> c, session |-> Load(c), email |-> email,
     password |-> password, username |-> username]

\* inflight without its i-th request
Answered(i) == SubSeq(inflight, 1, i - 1) \o SubSeq(inflight, i + 1, Len(inflight))

local_auths_email_key_Absent(rows, row) == TRUE

\* The unique constraint on local_auths.email: the INSERT of a row is refused
\* when a row with its email exists
local_auths_email_key(rows, row) == \A la \in rows : la.email # row.email

\* auth::signup up to its transaction
signup_begin(c, email, password, username) ==
    LET safe_username == to_lowercase(username)
        req == [email |-> email, password |-> password, username |-> username]
    IN
    /\ Len(inflight) < MaxRequests
    /\ UNCHANGED <<db, store, counters, now>>
    /\ IF \E la \in local_auths : la.email = email
       THEN /\ Fail("signup", req, c, 409, "Email already exists")
            /\ UNCHANGED inflight
       ELSE IF safe_username \in RESERVED_USERNAMES
       THEN /\ Fail("signup", req, c, 400, "Username is reserved")
            /\ UNCHANGED inflight
       ELSE /\ inflight' = Append(inflight,
                                  email_request("signup", c, email, password, username))
            /\ UNCHANGED last

\* ... its transaction, and the rest of the request
signup_end(i) ==
    LET r == inflight[i]
        c == r.cookie
        d == [r.session EXCEPT !.user_id = next_user]
        req == [email |-> r.email, password |-> r.password, username |-> r.username]
        user == [id |-> next_user, username |-> to_lowercase(r.username), role |-> "user"]
        local_auth == [user_id |-> next_user, email |-> r.email,
                       password_hash |-> hash_password(r.password)]
        outcomes == IF local_auths_email_key(local_auths, local_auth)
                    THEN SignupTxOutcomes
                    ELSE {"users insert failed", "local_auths insert failed"}
    IN
    /\ r.op = "signup"
    /\ inflight' = Answered(i)
    /\ UNCHANGED <<totp_secrets, backup_codes, passkey_credentials, next_secret,
                   next_batch, next_chal, now>>
    /\ \E o \in outcomes :
          /\ next_user <= MaxUsers
          /\ users' = Committed(users, Staged(users, user, o, {"users insert failed"}), o)
          /\ local_auths' =
                 Committed(local_auths,
                           Staged(local_auths, local_auth, o,
                                  {"users insert failed", "local_auths insert failed"}),
                           o)
          /\ IF o # "ok"
             THEN /\ Fail("signup", req, c, 500, o)
                  /\ UNCHANGED <<active_sessions, store, next_user, next_sid>>
             ELSE /\ CanSave(c, d)
                  /\ next_user' = next_user + 1
                  /\ Save(c, d)
                  /\ active_sessions' =
                         TrackSession(active_sessions, next_user, session_id(c))
                  /\ last' = [Request("signup", req, c) EXCEPT
                                 !.status = 201,
                                 !.msg = "User created successfully. Please verify your email.",
                                 !.user = next_user, !.sid = SavedSid(c, d),
                                 !.upsert = Upsert(next_user, session_id(c))]

\* auth::set_password up to its INSERT
set_password_begin(c, email, new_password) ==
    LET user_id == Load(c).user_id
        req == [email |-> email, new_password |-> new_password]
    IN
    /\ Len(inflight) < MaxRequests
    /\ UNCHANGED <<db, store, counters, now>>
    /\ IF user_id = None
       THEN /\ Fail("set_password", req, c, 401, "Not logged in")
            /\ UNCHANGED inflight
       ELSE IF \E la \in local_auths : la.user_id = user_id
       THEN /\ Fail("set_password", req, c, 400,
                    "Password already set. Use change-password instead.")
            /\ UNCHANGED inflight
       ELSE IF \E la \in local_auths : la.email = email
       THEN /\ Fail("set_password", req, c, 400, "Email already in use")
            /\ UNCHANGED inflight
       ELSE IF Len(new_password) < MinPasswordLen
       THEN /\ Fail("set_password", req, c, 400, "Password must be at least 6 characters")
            /\ UNCHANGED inflight
       ELSE /\ inflight' = Append(inflight,
                                  email_request("set_password", c, email, new_password, ""))
            /\ UNCHANGED last

\* ... its INSERT, and the response
set_password_end(i) ==
    LET r == inflight[i]
        req == [email |-> r.email, new_password |-> r.password]
        local_auth == [user_id |-> r.session.user_id, email |-> r.email,
                       password_hash |-> hash_password(r.password)]
    IN
    /\ r.op = "set_password"
    /\ inflight' = Answered(i)
    /\ UNCHANGED <<users, totp_secrets, backup_codes, passkey_credentials,
                   active_sessions, store, counters, now>>
    /\ IF local_auths_email_key(local_auths, local_auth)
       THEN /\ local_auths' = local_auths \cup {local_auth}
            /\ Ok("set_password", req, r.cookie, 200, "Password set successfully",
                  r.session.user_id)
       ELSE /\ Fail("set_password", req, r.cookie, 500, "local_auths insert failed")
            /\ UNCHANGED local_auths

\* Concurrent signups and password settings of OAuth users, for two emails
NextEmailRace ==
    \/ \E c \in Cookies, email \in SignupEmails : google_callback(c, email)
    \/ \E c \in Cookies, email \in SignupEmails : signup_begin(c, email, "secret1", "Ann")
    \/ \E i \in DOMAIN inflight : signup_end(i)
    \/ \E c \in Cookies, email \in SignupEmails, p \in {"secret1", "short"} :
           set_password_begin(c, email, p)
    \/ \E i \in DOMAIN inflight : set_password_end(i)

SpecEmailRace == Init /\ [][NextEmailRace]_vars

\* C14: in every reachable state no two LocalAuthCredentials hold the same
\* email, whatever the interleaving of concurrent signup and set_password
\* requests that name the same email.
C14_EmailsUnique ==
    \A la1, la2 \in local_auths : la1.email = la2.email => la1 = la2

\* An insert has just been refused for an email that was free when its
\* request checked it and was taken by another request in between
C14_Witness ==
    /\ last.op \in {"signup", "set_password"}
    /\ last.status = 500 /\ last.msg = "local_auths insert failed"
    /\ \E la \in local_auths : la.email = last.req.email

(* ------------------- properties: OAuth and local accounts -------------- *)
C15_Step ==
    (last'.op \in OAuthOps /\ AuthsOf(last'.req.email) # {}) =>
        /\ last'.status = 303
        /\ \E la \in AuthsOf(last'.req.email) :
              /\ last'.user = la.user_id
              /\ last'.sid \in DOMAIN store'
              /\ store'[last'.sid].user_id = la.user_id
        /\ users' = users
        /\ local_auths' = local_auths

\* C15: an OAuth callback whose email has a LocalAuthCredential finalizes the
\* session for the user of that credential, creates no User, and changes no
\* field of any User or LocalAuthCredential.
C15_OAuthReusesLocalAccount == [][C15_Step]_vars

\* An OAuth login has just been finalized for the user who signed up with the
\* same email and a password
C15_Witness ==
    /\ last.op \in OAuthOps /\ last.status = 303
    /\ \E la \in AuthsOf(last.req.email) :
          /\ la.user_id = last.user
          /\ la.password_hash = hash_password("secret1")
    /\ last.sid \in DOMAIN store
    /\ store[last.sid].user_id = last.user

(* ----------------------- properties: revocation ------------------------ *)
\* The session ids of the records the revoke_session of the step names
RevokedSids ==
    {r.session_id : r \in TargetSession(active_sessions, last'.req.id, CallerOf(last'))}

C16_Step ==
    /\ (last'.op = "revoke_session" /\ last'.status = 200) =>
          /\ RevokedSids # {}
          /\ \A sid \in RevokedSids :
                /\ \A r \in active_sessions' : r.session_id # sid
                /\ sid \notin DOMAIN store'
    /\ \A sid \in 1..MaxSessions :
          (sid < next_sid /\ sid \notin DOMAIN store) => sid \notin DOMAIN store'

\* C16: after revoke_session succeeds for a record of the caller, neither the
\* session record nor the session-store entry with that record's session id
\* exists, and no later step brings the entry back: requests that present the
\* session id load no principal.
C16_RevokedSessionGone == [][C16_Step]_vars

\* A caller has just revoked another session of theirs: it is gone from both
\* tables and the caller's own session is still there
C16_Witness ==
    /\ last.op = "revoke_session" /\ last.status = 200
    /\ last.cookie \in DOMAIN store
    /\ \E sid \in 1..MaxSessions :
          /\ last.req.id = AsrId(sid) /\ sid # last.cookie
          /\ sid < next_sid
          /\ Load(sid).user_id = None
          /\ \A r \in active_sessions : r.session_id # sid

(* ------------------------ properties: session list --------------------- *)
\* C17: for an authenticated caller whose session has an id, list_sessions
\* returns only records of the caller's user, and exactly one of them is
\* marked current: the record whose session_id is the caller's session id;
\* this holds whatever was done on that session before (the record is
\* backfilled when it is missing).
C17_ListMarksCurrent ==
    (last.op = "list_sessions" /\ last.status = 200 /\ last.sid # 0) =>
        /\ \A r \in last.data : r.user_id = last.user
        /\ \E r \in last.data :
              /\ r.is_current /\ r.session_id = last.sid
              /\ \A q \in last.data : q.is_current => q = r

\* The part of C17 about whose records are listed
C17_ListOnlyOwn ==
    (last.op = "list_sessions" /\ last.status = 200) =>
        \A r \in last.data : r.user_id = last.user

(* ------------------- passkey login of a TOTP user ---------------------- *)
\* The assertions of the registered credential with a counter that has moved
FreshAssertions == {asr \in Assertions : asr.credential_id = 1 /\ asr.counter > 0}

\* A user who enables TOTP and registers a passkey, then logs in either way
NextPasskeyTotp ==
    \/ \E c \in Cookies : signup(c, AnnEmail, "secret1", "Ann")
    \/ \E c \in Cookies : setup_totp(c)
    \/ \E c \in Cookies : enable_totp(c, TotpCode(1, 0))
    \/ \E c \in Cookies : login(c, AnnEmail, "secret1")
    \/ \E c \in Cookies : start_registration(c, "secret1")
    \/ \E c \in Cookies, att \in Attestations : finish_registration(c, att)
    \/ \E c \in Cookies : start_authentication(c)
    \/ \E c \in Cookies, asr \in FreshAssertions : finish_authentication(c, asr)

SpecPasskeyTotp == Init /\ [][NextPasskeyTotp]_vars

\* The larger of two counters
Max(a, b) == IF a > b THEN a ELSE b

C18_Step ==
    (last'.op = "finish_authentication" /\ last'.status = 200) =>
        LET c == last'.cookie
            asr == last'.req
        IN
        /\ c \in DOMAIN store /\ c \in DOMAIN store'
        /\ \E p \in passkey_credentials :
              /\ p.credential_id = asr.credential_id
              /\ last'.user = p.user_id
              /\ store'[c].user_id = p.user_id
              /\ store'[c].passkey_auth_state = NoState
              /\ store'[c].pending_2fa_user_id = store[c].pending_2fa_user_id
              /\ \E q \in passkey_credentials' :
                    /\ q.id = p.id
                    /\ q.last_used_at = now
                    /\ q.counter = Max(p.counter, asr.counter)
              /\ \E r \in active_sessions' :
                    /\ r.session_id = c /\ r.expires_in = SessionExpiryHours
                    /\ (\A x \in active_sessions : x.session_id # c) => r.user_id = p.user_id

\* C18: a successful finish_authentication makes the owner of the asserted
\* credential the session principal, updates the credential's last_used_at
\* and stored counter, removes the authentication challenge state from the
\* session and upserts the session record, and does not put the session into
\* the pending second-factor state, also when the owner has TOTP enabled.
C18_PasskeyLoginFinalizes == [][C18_Step]_vars

\* A user with TOTP enabled has just logged in with a passkey on a session
\* that holds no pending second factor
C18_Witness ==
    /\ last.op = "finish_authentication" /\ last.status = 200
    /\ TotpEnabled(last.user)
    /\ last.cookie \in DOMAIN store
    /\ store[last.cookie].user_id = last.user
    /\ store[last.cookie].pending_2fa_user_id = None
    /\ \E r \in active_sessions : r.session_id = last.cookie /\ r.user_id = last.user

(* ------------------ properties: passkey ceremonies --------------------- *)
\* The step is a finish_authentication whose credential id no stored
\* credential has
UnknownCredential ==
    /\ last'.op = "finish_authentication"
    /\ \A p \in passkey_credentials : p.credential_id # last'.req.credential_id

\* The step leaves credentials, users, sessions and session records alone
NothingChanged ==
    /\ passkey_credentials' = passkey_credentials
    /\ users' = users
    /\ store' = store
    /\ active_sessions' = active_sessions

C19_OriginalStep ==
    UnknownCredential =>
        /\ last'.status = 401 /\ last'.msg = "Unknown credential"
        /\ NothingChanged

\* C19: finish_authentication with a credential id that matches no stored
\* credential fails with 401 'Unknown credential' and changes nothing: no
\* credential or user is created, no principal is set, no session record is
\* written.
C19_UnknownCredentialRejected == [][C19_OriginalStep]_vars

C19_AmendedStep ==
    UnknownCredential =>
        /\ IF Load(last'.cookie).passkey_auth_state = NoState
           THEN last'.status = 400 /\ last'.msg = "No authentication in progress"
           ELSE last'.status = 401 /\ last'.msg = "Unknown credential"
        /\ NothingChanged

\* C19 (amended): finish_authentication with a credential id that matches no
\* stored credential fails with 401 'Unknown credential' when the session
\* holds an authentication challenge state, and with 400 'No authentication in
\* progress' when it holds none; either way it changes nothing.
C19_UnknownCredentialInCeremony == [][C19_AmendedStep]_vars

\* An assertion of a credential that was never registered has just been
\* refused on a session with a challenge, which the session still holds
C19_Witness ==
    /\ last.op = "finish_authentication" /\ last.status = 401
    /\ last.msg = "Unknown credential"
    /\ passkey_credentials # {}
    /\ \A p \in passkey_credentials : p.credential_id # last.req.credential_id
    /\ Load(last.cookie).passkey_auth_state # NoState
    /\ Load(last.cookie).user_id = None

\* The request before the step was a finish_registration whose attestation
\* failed verification, and the step serves a finish_registration on the same
\* session (so no start_registration came in between)
RetryAfterFailedVerification ==
    /\ last.op = "finish_registration"
    /\ last.status = 400 /\ last.msg = "Registration failed"
    /\ last'.op = "finish_registration"
    /\ last'.cookie = last.cookie

C20_Step == RetryAfterFailedVerification => last'.status # 200

\* C20: when finish_registration fails the verification of the attestation,
\* the registration ceremony has failed for good: a later finish_registration
\* on the same session does not succeed unless start_registration was called
\* again in between.
C20_FailedCeremonyIsTerminal == [][C20_Step]_vars

(* ----------------------- passkey registration start -------------------- *)
\* The passwords a start_registration request can carry, or none
RegistrationPasswords == Passwords \cup {NoPassword}

\* A user with a password and a user who came through Google start registrations
NextRegistration ==
    \/ \E c \in Cookies : signup(c, AnnEmail, "secret1", "Ann")
    \/ \E c \in Cookies : google_callback(c, BobEmail)
    \/ \E c \in Cookies : logout(c)
    \/ \E c \in Cookies, p \in RegistrationPasswords : start_registration(c, p)
    \/ \E c \in Cookies, att \in Attestations : finish_registration(c, att)

SpecRegistration == Init /\ [][NextRegistration]_vars

\* The local_auths rows of a user that hold a password hash
PasswordRowsOf(user_id) ==
    {la \in local_auths : la.user_id = user_id /\ la.password_hash.alg # ""}

C21_Step ==
    last'.op = "start_registration" =>
        LET c == last'.cookie
            u == Load(c).user_id
            pw == last'.req.password
        IN
        /\ store' # store =>
              /\ u # None
              /\ \A la \in PasswordRowsOf(u) :
                    pw # NoPassword /\ la.password_hash = [alg |-> "argon2id", pw |-> pw]
              /\ last'.status = 200
              /\ store'[c].passkey_reg_state.chal = next_chal
        /\ (\/ u = None
            \/ \E la \in PasswordRowsOf(u) :
                  pw = NoPassword \/ la.password_hash.pw # pw) =>
              /\ last'.status = 401
              /\ store' = store
              /\ next_chal' = next_chal

\* C21: start_registration issues a challenge and stores registration state
\* in the session only for an authenticated session and, when the user has a
\* local credential with a password hash, only with the correct password;
\* without a principal, without the password or with a wrong password it
\* answers 401 and stores no registration state.
C21_RegistrationNeedsPassword == [][C21_Step]_vars

\* A wrong password has just been refused on an authenticated session, which
\* holds no registration state
C21_Witness ==
    /\ last.op = "start_registration" /\ last.status = 401
    /\ last.msg = "Invalid password"
    /\ Load(last.cookie).user_id # None
    /\ Load(last.cookie).passkey_reg_state = NoState

\* A user without a local credential has started a registration without a password
C21_OAuthUserStarts ==
    /\ last.op = "start_registration" /\ last.status = 200
    /\ last.req.password = NoPassword
    /\ Load(last.cookie).passkey_reg_state # NoState

(* -------------- finish_authentication, statement by statement ---------- *)
\* Between the SELECT of the stored credential and the UPDATE that writes the
\* whole record back, other requests are served.  inflight holds the requests
\* that have verified their assertion and not yet written.
authentication_request(c, asr, stored, counter) ==
    [op |-> "finish_authentication", cookie |-> c, session |-> Load(c), asr |-> asr,
     stored |-> stored, counter |-> counter]

\* passkey::finish_authentication up to update_credential on the record it read
finish_authentication_begin(c, asr) ==
    LET auth_state == Load(c).passkey_auth_state
        stored == stored_credential(asr.credential_id)
    IN
    /\ Len(inflight) < MaxRequests
    /\ UNCHANGED <<db, store, counters, now>>
    /\ IF auth_state = NoState
       THEN /\ Fail("finish_authentication", asr, c, 400, "No authentication in progress")
            /\ UNCHANGED inflight
       ELSE IF stored = {}
       THEN /\ Fail("finish_authentication", asr, c, 401, "Unknown credential")
            /\ UNCHANGED inflight
       ELSE IF ~ finish_passkey_authentication(asr, auth_state)
       THEN /\ Fail("finish_authentication", asr, c, 401, "Authentication failed")
            /\ UNCHANGED inflight
       ELSE LET p == CHOOSE x \in stored : TRUE IN
            /\ inflight' = Append(inflight,
                   authentication_request(c, asr, p,
                                          update_credential(p.counter, asr.counter)))
            /\ UNCHANGED last

\* ... UPDATE passkey_credentials SET public_key = $1, last_used_at = NOW()
\* WHERE id = $2, and the rest of the request
finish_authentication_end(i) ==
    LET r == inflight[i]
        c == r.cookie
        p == r.stored
    IN
    /\ r.op = "finish_authentication"
    /\ c \in DOMAIN store
    /\ inflight' = Answered(i)
    /\ UNCHANGED <<users, local_auths, totp_secrets, backup_codes, counters, now>>
    /\ passkey_credentials' =
           {IF x.id = p.id THEN [x EXCEPT !.counter = r.counter, !.last_used_at = now]
            ELSE x : x \in passkey_credentials}
    /\ store' = SaveLoaded(c, [r.session EXCEPT !.user_id = p.user_id,
                                                !.passkey_auth_state = NoState])
    /\ active_sessions' = TrackSession(active_sessions, p.user_id, c)
    /\ last' = [Request("finish_authentication", r.asr, c) EXCEPT
                   !.status = 200, !.msg = "success", !.user = p.user_id,
                   !.upsert = Upsert(p.user_id, c)]

\* One registration, then logins with the credential from several sessions at once
NextCounterRace ==
    \/ \E c \in Cookies : signup(c, AnnEmail, "secret1", "Ann")
    \/ \E c \in Cookies : start_registration(c, "secret1")
    \/ \E c \in Cookies, att \in Attestations : finish_registration(c, att)
    \/ \E c \in Cookies : start_authentication(c)
    \/ \E c \in Cookies, asr \in FreshAssertions : finish_authentication_begin(c, asr)
    \/ \E i \in DOMAIN inflight : finish_authentication_end(i)

SpecCounterRace == Init /\ [][NextCounterRace]_vars

C22_Step ==
    \A p \in passkey_credentials, q \in passkey_credentials' :
        q.id = p.id => q.counter >= p.counter

\* C22: the signature counter stored for a passkey credential never decreases,
\* in any sequence or interleaving of finish_authentication requests for the
\* credential.
C22_CounterNeverDecreases == [][C22_Step]_vars

(* --------------------- properties: backup codes ------------------------ *)
C23_Step ==
    \A r \in backup_codes, q \in backup_codes' :
        (q.id = r.id /\ r.used) => (q.used /\ q.code_hash = r.code_hash)

\* C23: the used flag of a backup code changes only from false to true: no
\* operation sets it back to false on an existing code; a batch is replaced
\* only by deleting its rows and inserting new ones.
C23_UsedNeverReverts == [][C23_Step]_vars

\* A code that was redeemed has just been submitted again and refused; its
\* row is still marked used
C23_Witness ==
    /\ last.op = "verify_totp" /\ last.status = 401
    /\ \E r \in backup_codes : r.used /\ r.code_hash = hash_password(last.req.code)

(* ---------------- properties: session records and store ---------------- *)
\* C24: session records are kept in sync with the session store: in every
\* reachable state each session record refers to a session-store entry that
\* still exists (a record goes when its session is ended by logout,
\* revocation or expiry).
C24_RecordsHaveSessions ==
    \A r \in active_sessions : r.session_id \in DOMAIN store

(* ------------- generate_backup_codes, statement by statement ----------- *)
\* generate_backup_codes runs one DELETE and ten INSERTs on the pool, each its
\* own statement; between them other requests are served.  inflight holds the
\* regenerations that have deleted the old batch, with the number of codes
\* they have inserted.
generation_request(c, code, user_id, batch) ==
    [op |-> "regenerate_backup_codes", cookie |-> c, code |-> code, user_id |-> user_id,
     batch |-> batch, inserted |-> 0]

\* The k-th code of a batch
NthCode(batch, k) == BackupCode((batch - 1) * BackupBatchSize + k)

\* totp::regenerate_backup_codes up to the DELETE of generate_backup_codes
regenerate_backup_codes_begin(c, code) ==
    LET user_id == Load(c).user_id
        req == [code |-> code]
    IN
    /\ Len(inflight) < MaxRequests
    /\ UNCHANGED <<users, local_auths, totp_secrets, passkey_credentials, active_sessions,
                   store, next_user, next_sid, next_secret, next_chal, now>>
    /\ IF user_id = None
       THEN /\ Fail("regenerate_backup_codes", req, c, 401, "Not logged in")
            /\ UNCHANGED <<backup_codes, next_batch, inflight>>
       ELSE IF ~ verify_totp_code(user_id, code)
       THEN /\ Fail("regenerate_backup_codes", req, c, 400, "Invalid code")
            /\ UNCHANGED <<backup_codes, next_batch, inflight>>
       ELSE /\ next_batch <= MaxBatches
            /\ backup_codes' = {r \in backup_codes : r.user_id # user_id}
            /\ next_batch' = next_batch + 1
            /\ inflight' = Append(inflight, generation_request(c, code, user_id, next_batch))
            /\ UNCHANGED last

\* ... one turn of the loop: INSERT INTO backup_codes (user_id, code_hash)
generate_backup_codes_insert(i) ==
    LET r == inflight[i]
        code == NthCode(r.batch, r.inserted + 1)
    IN
    /\ r.op = "regenerate_backup_codes"
    /\ r.inserted < BackupBatchSize
    /\ backup_codes' = backup_codes \cup
           {[id |-> BackupRowId(code), user_id |-> r.user_id,
             code_hash |-> hash_password(code), used |-> FALSE]}
    /\ inflight' = [inflight EXCEPT ![i].inserted = r.inserted + 1]
    /\ UNCHANGED <<users, local_auths, totp_secrets, passkey_credentials, active_sessions,
                   store, counters, now, last>>

\* ... a statement of the loop fails: the error is returned through `?`
generate_backup_codes_error(i) ==
    LET r == inflight[i] IN
    /\ r.op = "regenerate_backup_codes"
    /\ r.inserted < BackupBatchSize
    /\ inflight' = Answered(i)
    /\ Fail("regenerate_backup_codes", [code |-> r.code], r.cookie, 500, "insert failed")
    /\ UNCHANGED <<db, store, counters, now>>

\* ... the loop is done: the codes are returned
regenerate_backup_codes_end(i) ==
    LET r == inflight[i] IN
    /\ r.op = "regenerate_backup_codes"
    /\ r.inserted = BackupBatchSize
    /\ inflight' = Answered(i)
    /\ last' = [Request("regenerate_backup_codes", [code |-> r.code], r.cookie) EXCEPT
                   !.status = 200, !.user = r.user_id, !.data = BatchCodes(r.batch)]
    /\ UNCHANGED <<db, store, counters, now>>

\* A user with TOTP enabled regenerates the backup codes
NextBatchRace ==
    \/ \E c \in Cookies : signup(c, AnnEmail, "secret1", "Ann")
    \/ \E c \in Cookies : setup_totp(c)
    \/ \E c \in Cookies : enable_totp(c, TotpCode(1, 0))
    \/ \E c \in Cookies, code \in {TotpCode(1, 0), BadCode} :
           regenerate_backup_codes_begin(c, code)
    \/ \E i \in DOMAIN inflight : generate_backup_codes_insert(i)
    \/ \E i \in DOMAIN inflight : generate_backup_codes_error(i)
    \/ \E i \in DOMAIN inflight : regenerate_backup_codes_end(i)

SpecBatchRace == Init /\ [][NextBatchRace]_vars

\* C25: in every state a request can observe, a user has either no backup
\* codes or exactly 10: a batch is generated atomically and replaces the one
\* before, whatever the interleaving of concurrent generations and also when
\* storage fails in the middle of a generation.
C25_BatchIsAtomic ==
    \A u \in users : Cardinality(CodesOf(u.id)) \in {0, BackupBatchSize}

\* A generation has failed after some inserts and left a partial batch
C25_PartialBatchAfterFailure ==
    /\ last.op = "regenerate_backup_codes" /\ last.status = 500
    /\ inflight = <<>>
    /\ \E u \in users : Cardinality(CodesOf(u.id)) \notin {0, BackupBatchSize}

C26_Step ==
    (ServesRequest /\ last'.op = "regenerate_backup_codes" /\ CallerOf(last') # None) =>
        LET u == CallerOf(last')
            old == {r \in backup_codes : r.user_id = u}
            new == {r \in backup_codes' : r.user_id = u}
        IN
        IF \E t \in SecretsOf(u) : t.enabled /\ ValidTotpFor(t.secret, last'.req.code)
        THEN /\ last'.status = 200
             /\ Cardinality(last'.data) = BackupBatchSize
             /\ Cardinality(new) = BackupBatchSize
             /\ {r.code_hash : r \in new} = {hash_password(code) : code \in last'.data}
             /\ \A r \in new : ~ r.used
             /\ \A r \in old : \A q \in new : q.id # r.id /\ q.code_hash # r.code_hash
             /\ OthersUntouched(u)
        ELSE /\ last'.status = 400 /\ last'.msg = "Invalid code"
             /\ backup_codes' = backup_codes

\* C26: regenerate_backup_codes replaces the caller's batch only on a valid
\* TOTP code for an enabled secret: then no code of the previous batch is
\* redeemable and exactly the 10 returned codes are; with an invalid code it
\* answers 'Invalid code' and the previous batch, used flags included, is as
\* it was.
C26_RegenerateNeedsValidTotp == [][C26_Step]_vars

\* A batch with a redeemed code has just been replaced by a fresh one
C26_Witness ==
    /\ last.op = "regenerate_backup_codes" /\ last.status = 200
    /\ last.data = BatchCodes(2)
    /\ {r.code_hash : r \in CodesOf(last.user)} = {hash_password(code) : code \in last.data}
    /\ ~ ValidSecondFactor(last.user, BackupCode(1))

\* A regeneration has just been refused and the batch still has its redeemed code
C26_Refused ==
    /\ last.op = "regenerate_backup_codes" /\ last.status = 400
    /\ \E r \in CodesOf(CallerOf(last)) : r.used

(* ------------------ ephemeral state of a session ----------------------- *)
\* The TOTP codes of the two secrets for the first time step
FirstStepCodes == {TotpCode(s, 0) : s \in 1..MaxSecrets}

\* The attestations and assertions of the first credential with counter 0 and 1
FirstAttestations == {att \in Attestations : att.credential_id = 1}
FirstAssertions == {asr \in Assertions : asr.credential_id = 1 /\ asr.counter = 1}

\* The cookie of the one session all requests share: none before the session
\* exists
SoleCookie == IF DOMAIN store = {} THEN {0} ELSE DOMAIN store

\* Two users with TOTP, and passkey ceremonies, started again and again on
\* one session
NextEphemeral ==
    \/ \E c \in SoleCookie : signup(c, AnnEmail, "secret1", "Ann")
    \/ \E c \in SoleCookie : signup(c, BobEmail, "secret1", "bob")
    \/ \E c \in SoleCookie : setup_totp(c)
    \/ \E c \in SoleCookie, code \in FirstStepCodes : enable_totp(c, code)
    \/ \E c \in SoleCookie, email \in SignupEmails : login(c, email, "secret1")
    \/ \E c \in SoleCookie, code \in FirstStepCodes : verify_totp(c, code)
    \/ \E c \in SoleCookie : start_registration(c, "secret1")
    \/ \E c \in SoleCookie, att \in FirstAttestations : finish_registration(c, att)
    \/ \E c \in SoleCookie : start_authentication(c)
    \/ \E c \in SoleCookie, asr \in FirstAssertions : finish_authentication(c, asr)

SpecEphemeral == Init /\ [][NextEphemeral]_vars

C27_Step ==
    LET c == last'.cookie
        before == Load(c)
    IN
    /\ (last'.op = "start_registration" /\ last'.status = 200) =>
          /\ store'[c].passkey_reg_state.chal = next_chal
          /\ store'[c].passkey_reg_state.chal # before.passkey_reg_state.chal
    /\ (last'.op = "start_authentication" /\ last'.status = 200) =>
          /\ store'[last'.sid].passkey_auth_state.chal = next_chal
          /\ store'[last'.sid].passkey_auth_state.chal # before.passkey_auth_state.chal
    /\ (last'.op = "login" /\ last'.msg = "2FA verification required") =>
          /\ store'[last'.sid].pending_2fa_user_id # None
          /\ \E la \in AuthsOf(last'.req.email) :
                store'[last'.sid].pending_2fa_user_id = la.user_id
    /\ (last'.op = "finish_registration" /\ last'.status = 200) =>
          last'.req.chal = before.passkey_reg_state.chal
    /\ (last'.op = "finish_authentication" /\ last'.status = 200) =>
          last'.req.chal = before.passkey_auth_state.chal
    /\ (last'.op = "verify_totp" /\ last'.status = 200) =>
          /\ last'.user = before.pending_2fa_user_id
          /\ ValidSecondFactor(before.pending_2fa_user_id, last'.req.code)

C27_OtherUsersCodeRefused ==
    /\ last.op = "verify_totp" /\ last.status = 401
    /\ Load(last.cookie).pending_2fa_user_id # None
    /\ \E t \in totp_secrets :
          /\ t.enabled /\ last.req.code = TotpCode(t.secret, 0)
          /\ t.user_id # Load(last.cookie).pending_2fa_user_id


(* ---------------- storage faults in the passkey ceremonies -------------- *)
\* passkey::finish_authentication, the session after the SELECT and the UPDATE:
\* an error of either returns before session.insert("user_id") and
\* session.remove("passkey_auth_state")
finish_authentication_session(d, user_id, updated) ==
    IF updated THEN [d EXCEPT !.user_id = user_id, !.passkey_auth_state = NoState]
               ELSE d

\* The statements of finish_authentication that read or write the credential
AuthenticationStatements == {"SELECT", "UPDATE"}

\* passkey::finish_registration when the INSERT that would have stored the
\* credential fails: map_err turns the error into a 500
finish_registration_fault(c, att) ==
    LET user_id == Load(c).user_id
        reg_state == Load(c).passkey_reg_state
    IN
    /\ PasskeyFrame
    /\ UNCHANGED <<passkey_credentials, active_sessions, next_sid, next_chal>>
    /\ user_id # None
    /\ reg_state # NoState
    /\ finish_passkey_registration(att, reg_state)
    /\ \A p \in passkey_credentials : p.credential_id # att.credential_id
    /\ store' = [store EXCEPT ![c] = finish_registration_session(Load(c), FALSE)]
    /\ last' = [Request("finish_registration", att, c) EXCEPT
                   !.status = 500, !.msg = "db error", !.log = "INSERT failed"]

\* passkey::finish_authentication when the SELECT of the stored credential or
\* the UPDATE of the verified one fails: map_err turns the error into a 500
finish_authentication_fault(c, asr, statement) ==
    LET auth_state == Load(c).passkey_auth_state
        stored == stored_credential(asr.credential_id)
    IN
    /\ PasskeyFrame
    /\ UNCHANGED <<passkey_credentials, active_sessions, next_sid, next_chal>>
    /\ auth_state # NoState
    /\ statement = "UPDATE" =>
          stored # {} /\ finish_passkey_authentication(asr, auth_state)
    /\ store' = [store EXCEPT ![c] =
                    finish_authentication_session(Load(c), None, FALSE)]
    /\ last' = [Request("finish_authentication", asr, c) EXCEPT
                   !.status = 500, !.msg = "db error",
                   !.log = IF statement = "SELECT" THEN "SELECT failed"
                                                   ELSE "UPDATE failed"]

NextStorageFault ==
    \/ \E c \in Cookies : signup(c, AnnEmail, "secret1", "Ann")
    \/ \E c \in Cookies : start_registration(c, "secret1")
    \/ \E c \in Cookies, att \in Attestations : finish_registration(c, att)
    \/ \E c \in Cookies, att \in Attestations : finish_registration_fault(c, att)
    \/ \E c \in Cookies : start_authentication(c)
    \/ \E c \in Cookies, asr \in FreshAssertions : finish_authentication(c, asr)
    \/ \E c \in Cookies, asr \in FreshAssertions, s \in AuthenticationStatements :
          finish_authentication_fault(c, asr, s)

SpecStorageFault == Init /\ [][NextStorageFault]_vars

FaultLogs == {"INSERT failed", "SELECT failed", "UPDATE failed"}

\* The request of `last` would be accepted if it were served now
RetryWouldSucceed ==
    LET d == Load(last.cookie) IN
    IF last.op = "finish_registration"
    THEN /\ d.user_id # None
         /\ d.passkey_reg_state # NoState
         /\ finish_passkey_registration(last.req, d.passkey_reg_state)
         /\ \A p \in passkey_credentials : p.credential_id # last.req.credential_id
    ELSE /\ d.passkey_auth_state # NoState
         /\ stored_credential(last.req.credential_id) # {}
         /\ finish_passkey_authentication(last.req, d.passkey_auth_state)

\* The request of `last` is served again, this time without a fault
RetriedAfterFault ==
    /\ last.log \in FaultLogs
    /\ last'.op = last.op
    /\ last'.req = last.req
    /\ last'.cookie = last.cookie
    /\ last'.log \notin FaultLogs

C28_Step ==
    /\ last'.log \in FaultLogs /\ last' # last =>
          /\ last'.status = 500
          /\ store' = store
          /\ passkey_credentials' = passkey_credentials
          /\ active_sessions' = active_sessions
          /\ store'[last'.cookie].user_id = store[last'.cookie].user_id
          /\ last'.log # "SELECT failed" => RetryWouldSucceed'
    /\ RetriedAfterFault /\ last.log # "SELECT failed" =>
          /\ last'.status = 200
          /\ last'.op = "finish_registration" =>
                \E p \in passkey_credentials' \ passkey_credentials :
                    p.credential_id = last'.req.credential_id
          /\ last'.op = "finish_authentication" =>
                store'[last'.cookie].user_id = last'.user
    /\ RetriedAfterFault /\ last.log = "SELECT failed" =>
          (last'.status = 200 <=> RetryWouldSucceed)

\* C28: a storage fault in finish_registration (the INSERT) or in
\* finish_authentication (the SELECT or the UPDATE) fails the request with
\* the session, its challenge state and its principal untouched and nothing
\* stored, and the same finish step repeated on the same session right after
\* the fault is accepted whenever it would have been without the fault.
C28_FaultLeavesCeremonyRetryable == [][C28_Step]_vars

\* An assertion was refused by a failed UPDATE and is still acceptable
C28_Witness ==
    /\ last.op = "finish_authentication"
    /\ last.log = "UPDATE failed"
    /\ last.status = 500
    /\ Load(last.cookie).user_id = None
    /\ Load(last.cookie).passkey_auth_state # NoState
    /\ RetryWouldSucceed

\* The attestation was refused by a failed INSERT and is still acceptable
C28_RegistrationFault ==
    /\ last.op = "finish_registration"
    /\ last.log = "INSERT failed"
    /\ RetryWouldSucceed


(* ------------- revoke_all_other_sessions with failing deletes ----------- *)
DeleteEach_AbortOnError(ids, failed) == IF failed = {} THEN ids ELSE {}

\* session::revoke_all_other_sessions, the loop over other_sessions: the
\* result of each DELETE is dropped with .ok(), so the entries removed are
\* those whose DELETE did not fail
DeleteEach(ids, failed) == ids \ failed

\* session::revoke_all_other_sessions, where the DELETE of the session-store
\* entries in `failed` fails
revoke_all_other_sessions_failing(c, failed) ==
    LET user_id == Load(c).user_id
        current_session_id == session_id(c)
        other_sessions == OtherSessions(active_sessions, user_id, current_session_id)
        deleted == {r.session_id : r \in other_sessions}
        req == [failed |-> failed]
    IN
    /\ SessionFrame
    /\ IF user_id = None
       THEN /\ failed = {}
            /\ Fail("revoke_all_other_sessions", req, c, 401, "Not logged in")
            /\ UNCHANGED <<active_sessions, store>>
       ELSE /\ failed \subseteq deleted
            /\ active_sessions' = active_sessions \ other_sessions
            /\ store' = DeleteStoreEntries(DeleteEach(deleted, failed))
            /\ last' = [Request("revoke_all_other_sessions", req, c) EXCEPT
                           !.status = 200, !.user = user_id,
                           !.sid = IF c \in DeleteEach(deleted, failed) THEN 0 ELSE c,
                           !.data = deleted]

NextRevokeAll ==
    \/ \E c \in Cookies : signup(c, AnnEmail, "secret1", "Ann")
    \/ \E c \in Cookies : signup(c, BobEmail, "secret1", "bob")
    \/ \E c \in Cookies, email \in SignupEmails :
          login_within(c, email, "secret1", MaxDevices)
    \/ \E c \in Cookies, failed \in SUBSET (1..MaxDevices) :
          revoke_all_other_sessions_failing(c, failed)

SpecRevokeAll == Init /\ [][NextRevokeAll]_vars

C29_Step ==
    (/\ last'.op = "revoke_all_other_sessions"
     /\ last' # last
     /\ Load(last'.cookie).user_id # None) =>
        /\ last'.status = 200
        /\ \A r \in active_sessions' :
              r.user_id = last'.user => r.session_id = last'.cookie
        /\ \A r \in active_sessions :
              (r.user_id # last'.user \/ r.session_id = last'.cookie)
                  => r \in active_sessions'
        /\ \A r \in active_sessions :
              (/\ r.user_id = last'.user
               /\ r.session_id # last'.cookie
               /\ r.session_id \notin last'.req.failed)
                  => r.session_id \notin DOMAIN store'
        /\ last'.cookie \in DOMAIN store'

\* C29: when revoke_all_other_sessions cannot delete the session-store entry
\* of some other session, it still answers 200, no session record of the
\* caller's user other than the current session's remains, and the store
\* entry of every other session whose delete did not fail is gone.
C29_FailedDeleteDoesNotAbort == [][C29_Step]_vars

\* One of two other sessions could not be deleted; the second one was
C29_Witness ==
    /\ last.op = "revoke_all_other_sessions"
    /\ last.status = 200
    /\ \E kept \in last.req.failed : kept \in DOMAIN store
    /\ \E gone \in last.data \ last.req.failed : gone \notin DOMAIN store
    /\ \A r \in active_sessions :
          r.user_id = last.user => r.session_id = last.cookie


(* ------------- verify_totp: TOTP first, then one backup code ------------ *)
\* The step marks exactly one row used: an unused row of the user
MarksOneUnusedCodeOf(user_id) ==
    \E r \in backup_codes :
        /\ r.user_id = user_id
        /\ ~ r.used
        /\ backup_codes' = MarkUsed(backup_codes, r.id)

\* The verify_totp requests the step answers with 200
AcceptedNow ==
    {i \in DOMAIN inflight' :
        /\ inflight'[i].status = 200
        /\ (i \in DOMAIN inflight => inflight[i].status # 200)}

C30_Step ==
    \A i \in AcceptedNow :
        LET r == inflight'[i]
            user_id == r.session.pending_2fa_user_id
        IN
        /\ r.by = "totp" =>
              /\ verify_totp_code(user_id, r.code)
              /\ backup_codes' = backup_codes
        /\ r.by = "backup" =>
              /\ ~ verify_totp_code(user_id, r.code)
              /\ MarksOneUnusedCodeOf(user_id)

\* C30: verify_totp checks the code as TOTP first and as a backup code only
\* if that fails: a request accepted as TOTP changes no backup code, and a
\* request accepted as a backup code marks exactly one code used, a code of
\* the pending user that was unused until then, and changes no other code.
C30_TotpFirstThenOneBackupCode == [][C30_Step]_vars

\* The same for requests served one at a time
C30_SequentialStep ==
    (/\ ServesRequest
     /\ last'.op = "verify_totp"
     /\ last'.status = 200
     /\ Load(last'.cookie).pending_2fa_user_id # None) =>
        LET user_id == Load(last'.cookie).pending_2fa_user_id IN
        /\ last'.data = {"totp"} =>
              /\ verify_totp_code(user_id, last'.req.code)
              /\ backup_codes' = backup_codes
        /\ last'.data = {"backup"} =>
              /\ ~ verify_totp_code(user_id, last'.req.code)
              /\ MarksOneUnusedCodeOf(user_id)

C30_OneAtATime == [][C30_SequentialStep]_vars

\* A login was completed by a backup code, which is now used
C30_AcceptedAsBackup ==
    /\ last.op = "verify_totp"
    /\ last.status = 200
    /\ last.data = {"backup"}
    /\ \E r \in backup_codes :
          r.used /\ r.user_id = last.user /\ r.code_hash = hash_password(last.req.code)


(* -------------- setup_totp again replaces the pending secret ------------ *)
C31_Step ==
    ServesRequest =>
        /\ (last'.op = "setup_totp" /\ last'.status = 200
                /\ CallerOf(last') # None /\ ~ TotpEnabled(CallerOf(last'))) =>
              {t \in totp_secrets' : t.user_id = CallerOf(last')} =
                  {[user_id |-> CallerOf(last'), secret |-> next_secret,
                    enabled |-> FALSE]}
        /\ (last'.op = "enable_totp" /\ last'.status = 200
                /\ CallerOf(last') # None) =>
              \E t \in SecretsOf(CallerOf(last')) :
                  /\ SecretsOf(CallerOf(last')) = {t}
                  /\ ValidTotpFor(t.secret, last'.req.code)
        /\ \A u \in {t.user_id : t \in totp_secrets'} :
              Cardinality({t \in totp_secrets' : t.user_id = u}) <= 1

\* C31: every user has at most one totp_secrets row, a setup_totp of a user
\* whose TOTP is not enabled leaves that user exactly the freshly generated
\* secret with enabled = false, and enable_totp succeeds only on a code of
\* the one secret the user has, so no code of a replaced secret enables TOTP.
C31_SetupReplacesPendingSecret == [][C31_Step]_vars

\* The second setup_totp of a user replaced the pending first secret
C31_Witness ==
    /\ last.op = "setup_totp"
    /\ last.status = 200
    /\ last.data = {2}
    /\ SecretsOf(last.user) = {[user_id |-> last.user, secret |-> 2, enabled |-> FALSE]}
    /\ backup_codes = {}

\* A code of the replaced secret was refused by enable_totp
C31_OldCodeRefused ==
    /\ last.op = "enable_totp"
    /\ last.status = 400
    /\ last.msg = "Invalid code"
    /\ last.req.code = TotpCode(1, 0)
    /\ now = 0
    /\ SecretsOf(CallerOf(last)) =
           {[user_id |-> CallerOf(last), secret |-> 2, enabled |-> FALSE]}


(* ---------------- OAuth login of a user with TOTP enabled --------------- *)
NextOAuthTotp ==
    \/ \E c \in Cookies : signup(c, AnnEmail, "secret1", "Ann")
    \/ \E c \in Cookies : login(c, AnnEmail, "secret1")
    \/ \E c \in Cookies : setup_totp(c)
    \/ \E c \in Cookies, code \in FirstStepCodes : enable_totp(c, code)
    \/ \E c \in Cookies, email \in SignupEmails : google_callback(c, email)
    \/ \E c \in Cookies, github_login \in GithubLogins, email \in SignupEmails :
           github_callback(c, github_login, email)
    \/ \E c \in Cookies : logout(c)

SpecOAuthTotp == Init /\ [][NextOAuthTotp]_vars

\* The step is an OAuth callback that resolved a user with TOTP enabled
OAuthLoginOfTotpUser ==
    /\ last'.op \in OAuthOps
    /\ last'.status = 303
    /\ TotpEnabled(last'.user)

\* ... it set the principal, stored no pending user and verified no code
C32_Direct ==
    /\ last'.sid \in DOMAIN store'
    /\ store'[last'.sid].user_id = last'.user
    /\ store'[last'.sid].pending_2fa_user_id = Load(last'.cookie).pending_2fa_user_id
    /\ UNCHANGED <<totp_secrets, backup_codes>>

\* ... the session id has a record with a 24-hour expiry after the step, the
\* user's own if the step created it
C32_Tracked ==
    \E r \in active_sessions' :
        /\ r.session_id = last'.sid
        /\ r.expires_in = SessionExpiryHours
        /\ (\A x \in active_sessions : x.session_id # last'.sid) => r.user_id = last'.user

C32_OriginalStep == OAuthLoginOfTotpUser => (C32_Direct /\ C32_Tracked)

\* C32 as claimed: an OAuth callback that resolves a user with TOTP enabled
\* sets the session principal and creates the session record, stores no
\* pending second-factor state and verifies no code.
C32_OAuthAlwaysTracks == [][C32_OriginalStep]_vars

C32_AmendedStep ==
    OAuthLoginOfTotpUser =>
        /\ C32_Direct
        /\ session_id(last'.cookie) # 0 => C32_Tracked
        /\ session_id(last'.cookie) = 0 => active_sessions' = active_sessions

\* C32, amended: an OAuth callback that resolves a user with TOTP enabled
\* sets the session principal, stores no pending second-factor state and
\* verifies no code; it upserts the session record when the session
\* identifier is available, that is when the request came on a session that
\* already has a record in the store, and writes no record otherwise.
C32_OAuthFinalizesDirectly == [][C32_AmendedStep]_vars

\* Ann, with TOTP enabled, is logged in by google_callback on a session that
\* was pending her second factor, and the session is tracked
C32_Witness ==
    /\ last.op = "google_callback"
    /\ last.status = 303
    /\ TotpEnabled(last.user)
    /\ last.cookie # 0
    /\ Load(last.sid).user_id = last.user
    /\ \E r \in active_sessions : r.session_id = last.sid /\ r.user_id = last.user

\* Ann, with TOTP enabled, is logged in by an OAuth callback that came
\* without a session: the new session has her as principal and no record
C32_UntrackedLogin ==
    /\ last.op \in OAuthOps
    /\ last.status = 303
    /\ TotpEnabled(last.user)
    /\ last.cookie = 0
    /\ Load(last.sid).user_id = last.user
    /\ \A r \in active_sessions : r.session_id # last.sid


(* ------------- finish_registration consumes the registration ------------ *)
\* Attestations for two new credentials, over every challenge
RegistrationAttestations == [chal : 1..MaxChal, credential_id : {1, 2}, counter : {0}]

NextFinishRegistration ==
    \/ \E c \in Cookies : signup(c, AnnEmail, "secret1", "Ann")
    \/ \E c \in Cookies : google_callback(c, BobEmail)
    \/ \E c \in Cookies : logout(c)
    \/ \E c \in Cookies, p \in {"secret1", NoPassword} : start_registration(c, p)
    \/ \E c \in Cookies, att \in RegistrationAttestations : finish_registration(c, att)

SpecFinishRegistration == Init /\ [][NextFinishRegistration]_vars

\* The sessions whose registration state the step stored or replaced
RegistrationStored ==
    {sid \in DOMAIN store' :
        /\ store'[sid].passkey_reg_state # NoState
        /\ Load(sid).passkey_reg_state # store'[sid].passkey_reg_state}

C33_Step ==
    /\ \A sid \in RegistrationStored :
          /\ last'.op = "start_registration"
          /\ last'.status = 200
          /\ last'.cookie = sid
    /\ (last'.op = "finish_registration" /\ last'.status = 200) =>
          LET c == last'.cookie IN
          /\ Load(c).user_id # None
          /\ Load(c).passkey_reg_state # NoState
          /\ Load(c).passkey_reg_state.chal = last'.req.chal
          /\ passkey_credentials \subseteq passkey_credentials'
          /\ \E p \in passkey_credentials' :
                /\ passkey_credentials' \ passkey_credentials = {p}
                /\ p.user_id = Load(c).user_id
                /\ p.credential_id = last'.req.credential_id
          /\ store'[c].passkey_reg_state = NoState
          /\ store'[c].user_id = Load(c).user_id
    /\ (/\ last'.op = "finish_registration"
        /\ Load(last'.cookie).user_id # None
        /\ Load(last'.cookie).passkey_reg_state = NoState) =>
          /\ last'.status = 400
          /\ last'.msg = "No registration in progress"
          /\ UNCHANGED <<passkey_credentials, store>>
    /\ (/\ last.op = "finish_registration" /\ last.status = 200
        /\ last'.op = "finish_registration"
        /\ last'.cookie = last.cookie
        /\ last'.req.chal = last.req.chal) =>
          /\ last'.status = 400
          /\ UNCHANGED passkey_credentials

\* C33: registration state enters a session only through a successful
\* start_registration; finish_registration succeeds only on an authenticated
\* session holding such state for the attested challenge, then inserts
\* exactly one credential, owned by the session's user, and removes the
\* state; on an authenticated session without state it answers 'No
\* registration in progress', so the challenge of a completed registration
\* completes no second one.
C33_RegistrationIsConsumed == [][C33_Step]_vars

\* After the only challenge issued completed a registration, an attestation
\* of a second credential for that challenge is refused
C33_Witness ==
    /\ last.op = "finish_registration"
    /\ last.status = 400
    /\ last.msg = "No registration in progress"
    /\ last.req.chal = 1 /\ last.req.credential_id = 2
    /\ next_chal = 2
    /\ \E p \in passkey_credentials :
          p.user_id = Load(last.cookie).user_id /\ p.credential_id = 1
    /\ \A p \in passkey_credentials : p.credential_id # 2


(* ---------------- one local credential per user, set_password ----------- *)
NextLocalAuth ==
    \/ \E c \in Cookies, email \in SignupEmails : signup(c, email, "secret1", "Ann")
    \/ \E c \in Cookies : google_callback(c, BobEmail)
    \/ \E c \in Cookies, email \in SignupEmails, p \in {"secret1", "short"} :
           set_password(c, email, p)
    \/ make_admin("ann")
    \/ \E c \in Cookies : create_test_user(c)
    \/ \E c \in Cookies : logout(c)

SpecLocalAuth == Init /\ [][NextLocalAuth]_vars

\* The local_auths rows of a user
LocalAuthsOf(user_id) == {la \in local_auths : la.user_id = user_id}

\* What set_password answers when it refuses an authenticated caller
SetPasswordRefusals ==
    {"Password already set. Use change-password instead.", "Email already in use",
     "Password must be at least 6 characters"}

C34_Step ==
    /\ \A la1, la2 \in local_auths' : la1.user_id = la2.user_id => la1 = la2
    /\ (last'.op \in OAuthOps /\ last'.log = "new user") =>
          /\ \A la \in local_auths' : la.user_id # last'.user
          /\ local_auths' = local_auths
    /\ \A la \in local_auths' \ local_auths :
          (\E u \in users : u.id = la.user_id) =>
              /\ last'.op = "set_password"
              /\ last'.status = 200
              /\ CallerOf(last') = la.user_id
    /\ (last'.op = "set_password" /\ CallerOf(last') # None) =>
          LET req == last'.req
              has_one == LocalAuthsOf(CallerOf(last')) # {}
              email_used == \E la \in local_auths : la.email = req.email
              too_short == Len(req.new_password) < MinPasswordLen
          IN
          /\ last'.status = 200 <=> (~ has_one /\ ~ email_used /\ ~ too_short)
          /\ last'.status = 200 =>
                local_auths' = local_auths \cup
                    {[user_id |-> CallerOf(last'), email |-> req.email,
                      password_hash |-> hash_password(req.new_password)]}
          /\ last'.status # 200 =>
                /\ last'.status = 400
                /\ last'.msg \in SetPasswordRefusals
                /\ has_one =>
                      last'.msg = "Password already set. Use change-password instead."
                /\ local_auths' = local_auths

C34_AlreadySet ==
    /\ last.op = "set_password"
    /\ last.status = 400
    /\ last.msg = "Password already set. Use change-password instead."
    /\ \E u \in users : u.id = CallerOf(last) /\ u.username = "bob"
    /\ Cardinality(LocalAuthsOf(CallerOf(last))) = 1


(* ------------- one acceptance per authentication challenge -------------- *)
\* The step answers an in-flight finish_authentication, which it accepts
AcceptsInFlightAssertion ==
    /\ Len(inflight') < Len(inflight)
    /\ last'.op = "finish_authentication"
    /\ last'.status = 200

\* The request answered before the step was accepted for the same challenge
\* on the same session
SameChallengeJustAccepted ==
    /\ last.op = "finish_authentication"
    /\ last.status = 200
    /\ last.cookie = last'.cookie
    /\ last.req.chal = last'.req.chal

C35_Step == AcceptsInFlightAssertion => ~ SameChallengeJustAccepted

\* C35: whatever the interleaving of the requests on a session, the
\* challenge issued by one start_authentication is accepted by at most one
\* finish_authentication request: no request is accepted for a challenge
\* for which that session has just had a request accepted.
C35_ChallengeAcceptedOnce == [][C35_Step]_vars


(* ------------------- Enabled ends only by disable_totp ------------------ *)
\* The users whose TOTP is enabled before the step and not after it
EnabledTurnedOff ==
    {u \in {t.user_id : t \in totp_secrets} :
        /\ TotpEnabled(u)
        /\ ~ \E t \in totp_secrets' : t.user_id = u /\ t.enabled}

C36_Step ==
    ServesRequest =>
        \A u \in EnabledTurnedOff :
            /\ last'.op = "disable_totp"
            /\ last'.status = 200
            /\ CallerOf(last') = u
            /\ \E t \in SecretsOf(u) : ValidTotpFor(t.secret, last'.req.code)

\* C36: a user's TOTP stops being enabled only in a step that is a
\* successful disable_totp of that user carrying a TOTP code valid for the
\* user's secret at that time; no other request of the user's session, in
\* particular setup_totp, turns the enabled flag off.
C36_EnabledUntilDisabled == [][C36_Step]_vars

\* setup_totp answered 200 to a user whose TOTP was set up, enabled and never
\* disabled, and left the user with a secret that is not enabled
C36_SetupTurnsOff ==
    /\ last.op = "setup_totp"
    /\ last.status = 200
    /\ backup_codes # {}
    /\ \E t \in SecretsOf(last.user) : ~ t.enabled


(* ------------- a session's record belongs to its principal -------------- *)
\* C37: every active_sessions row whose session id is that of a stored
\* session with a principal has that principal as its user_id, also after a
\* login as another user on a session id that already has a row.
C37_RecordOwnedByPrincipal ==
    \A r \in active_sessions :
        (r.session_id \in DOMAIN store /\ store[r.session_id].user_id # None)
            => r.user_id = store[r.session_id].user_id


(* ------------------- one record per session identifier ------------------ *)
\* The step called create_session for a session id that has a row
UpsertOnTrackedSession ==
    /\ last'.upsert # NoUpsert
    /\ RowsOf(active_sessions, last'.upsert.sid) # {}

C38_Step ==
    /\ \A r1, r2 \in active_sessions' : r1.session_id = r2.session_id => r1 = r2
    /\ UpsertOnTrackedSession =>
          /\ {r.id : r \in active_sessions'} = {r.id : r \in active_sessions}
          /\ \E r \in RowsOf(active_sessions', last'.upsert.sid) :
                /\ RowsOf(active_sessions', last'.upsert.sid) = {r}
                /\ r.expires_in = SessionExpiryHours
                /\ r.id \in {x.id : x \in RowsOf(active_sessions, last'.upsert.sid)}

\* C38: no two active_sessions rows have the same session id in any state,
\* and an authentication or a list_sessions backfill on a session id that
\* has a row refreshes that row and adds none.
C38_OneRecordPerSessionId == [][C38_Step]_vars

\* A login on a session id that had a record of another user left that one record
C38_Witness ==
    /\ last.op = "login"
    /\ last.status = 200
    /\ last.upsert.sid = last.cookie
    /\ last.cookie # 0
    /\ \E r \in active_sessions :
          /\ RowsOf(active_sessions, last.cookie) = {r}
          /\ r.user_id # last.user

\* The same for a backfill by list_sessions
C38_BackfillOnTrackedSession ==
    /\ last.op = "list_sessions"
    /\ last.upsert.sid = last.cookie
    /\ last.cookie # 0
    /\ \E r \in active_sessions :
          /\ RowsOf(active_sessions, last.cookie) = {r}
          /\ r.user_id # last.user


(* ------------------- usernames: reserved and lower case ----------------- *)
\* user::update_profile, for a request that carries a username (the other
\* profile fields are not modelled)
update_profile(c, username) ==
    LET user_id == Load(c).user_id
        safe_username == to_lowercase(username)
        req == [username |-> username]
    IN
    /\ UNCHANGED <<local_auths, totp_secrets, backup_codes, passkey_credentials,
                   active_sessions, store, counters, now, inflight>>
    /\ IF user_id = None
       THEN /\ Fail("update_profile", req, c, 401, "Not logged in")
            /\ UNCHANGED users
       ELSE IF safe_username \in RESERVED_USERNAMES
       THEN /\ Fail("update_profile", req, c, 400, "Username is reserved")
            /\ UNCHANGED users
       ELSE IF \E u \in users : u.username = safe_username /\ u.id # user_id
       THEN /\ Fail("update_profile", req, c, 409, "Username already taken")
            /\ UNCHANGED users
       ELSE /\ users' = {IF u.id = user_id THEN [u EXCEPT !.username = safe_username]
                         ELSE u : u \in users}
            /\ Ok("update_profile", req, c, 200, "Profile updated successfully", user_id)

\* A Google account and a GitHub login whose derived username is a reserved name
AdminEmail == Email("Admin", "x.com")
ProviderLogins == {"Ann", "Admin"}
ProviderEmails == {BobEmail, AdminEmail}

NextUsernames ==
    \/ \E c \in Cookies, username \in {"Ann", "Admin"} :
           signup(c, AnnEmail, "secret1", username)
    \/ \E c \in Cookies, email \in ProviderEmails : google_callback(c, email)
    \/ \E c \in Cookies, github_login \in ProviderLogins, email \in ProviderEmails :
           github_callback(c, github_login, email)
    \/ \E c \in Cookies, username \in {"Ann", "Admin", "bob"} : update_profile(c, username)
    \/ \E c \in Cookies : logout(c)

SpecUsernames == Init /\ [][NextUsernames]_vars

\* C39: in every state no users row has a username in RESERVED_USERNAMES and
\* every stored username is lower-case, whether it came from signup, from
\* google_callback, from github_callback or from update_profile.
C39_UsernamesClean ==
    \A u \in users :
        /\ u.username \notin RESERVED_USERNAMES
        /\ to_lowercase(u.username) = u.username

\* The part that holds: every stored username is lower-case
C39_UsernamesLowerCase == \A u \in users : to_lowercase(u.username) = u.username

\* signup and update_profile have refused the reserved name
C39_ReservedRefused ==
    /\ last.op \in {"signup", "update_profile"}
    /\ last.status = 400
    /\ last.msg = "Username is reserved"


(* ------------ revoke_all_other_sessions, statement by statement --------- *)
\* revoke_all_other_sessions runs its SELECT of the other session ids, its
\* DELETE of the records and its DELETEs of the session-store entries as
\* separate statements on the pool; between the SELECT and the DELETE other
\* requests are served.  inflight holds the revocations that have selected.
revoke_request(c, user_id, current_session_id, other_sessions) ==
    [op |-> "revoke_all_other_sessions", cookie |-> c, user_id |-> user_id,
     current_session_id |-> current_session_id, other_sessions |-> other_sessions]

\* session::revoke_all_other_sessions up to its SELECT
revoke_all_other_sessions_begin(c) ==
    LET user_id == Load(c).user_id
        current_session_id == session_id(c)
        other_sessions == {r.session_id :
                              r \in OtherSessions(active_sessions, user_id, current_session_id)}
    IN
    /\ Len(inflight) < MaxRequests
    /\ UNCHANGED <<db, store, counters, now>>
    /\ IF user_id = None
       THEN /\ Fail("revoke_all_other_sessions", NoReq, c, 401, "Not logged in")
            /\ UNCHANGED inflight
       ELSE /\ inflight' = Append(inflight, revoke_request(c, user_id, current_session_id,
                                                           other_sessions))
            /\ UNCHANGED last

\* ... its DELETE of the records, and the loop over the ids it selected
revoke_all_other_sessions_end(i) ==
    LET r == inflight[i] IN
    /\ r.op = "revoke_all_other_sessions"
    /\ inflight' = Answered(i)
    /\ UNCHANGED <<users, local_auths, totp_secrets, backup_codes, passkey_credentials,
                   counters, now>>
    /\ active_sessions' =
           active_sessions \ OtherSessions(active_sessions, r.user_id, r.current_session_id)
    /\ store' = DeleteStoreEntries(r.other_sessions)
    /\ last' = [Request("revoke_all_other_sessions", NoReq, r.cookie) EXCEPT
                   !.status = 200, !.user = r.user_id, !.sid = r.current_session_id,
                   !.data = r.other_sessions]

NextRevokeRace ==
    \/ \E c \in Cookies : signup(c, AnnEmail, "secret1", "Ann")
    \/ \E c \in Cookies : signup(c, BobEmail, "secret1", "bob")
    \/ \E c \in Cookies, email \in SignupEmails : login(c, email, "secret1")
    \/ \E c \in Cookies : revoke_all_other_sessions_begin(c)
    \/ \E i \in 1..MaxRequests : i <= Len(inflight) /\ revoke_all_other_sessions_end(i)

SpecRevokeRace == Init /\ [][NextRevokeRace]_vars

\* A revocation is answered
RevokeAnswered == Len(inflight') < Len(inflight)

\* The records a step deletes
RecordsDeleted == active_sessions \ active_sessions'

C40_Step ==
    RevokeAnswered =>
        \A r \in RecordsDeleted : r.session_id \notin DOMAIN store'

\* C40: when revoke_all_other_sessions is served while the same user logs in
\* on another session, every session whose record the revocation deletes has
\* its session-store entry deleted too: no session stays authenticated for
\* the user without its record.
C40_RevokedRecordsLoseTheirSession == [][C40_Step]_vars

C40_SequentialStep ==
    (/\ last'.op = "revoke_all_other_sessions"
     /\ last' # last) =>
        \A r \in RecordsDeleted : r.session_id \notin DOMAIN store'

\* The same, for revocations that are served one at a time with no request
\* between their statements
C40_RevokedOneAtATime == [][C40_SequentialStep]_vars

====
